---- MODULE Spec2Model ----
(***************************************************************************)
(* The Sintrop contracts as state machines.                                *)
(*                                                                         *)
(* The contracts never call each other, so a behaviour follows one         *)
(* deployed contract, chosen in Init; `storage' is that contract's         *)
(* storage, a record with the names of its state variables.  A Solidity    *)
(* mapping is a total function whose unwritten keys read as zero.          *)
(*                                                                         *)
(* Every external function is an operator from (storage, msg.sender,       *)
(* arguments) to the storage it commits and the receipt of the call: the   *)
(* call, its status ("ok" or the revert reason), the events it logged and  *)
(* the value it returned.  A call that reverts leaves storage as it was.   *)
(* One action applies one call, as the chain runs one transaction at a     *)
(* time.                                                                   *)
(***************************************************************************)
EXTENDS Integers, Sequences, FiniteSets, TLC

\* ---------------------------------------------------------------- bounds
NumAddresses == 2
MaxRecords == 2
MaxBlock == 2

Addresses == 1..NumAddresses
\* keys a call can name: 0, every id an insert can assign, and one beyond
Ids == 0..(MaxRecords + 1)

\* ------------------------------------------------------- enum VoteType
None == 0
Upvote == 1
Downvote == 2
Positive == 1
Negative == 2
VoteType == {None, Upvote, Downvote}

\* --------------------------------------------------------------- strings
\* A string is n copies of one byte; bytes(s).length is n.
Repeat(c, n) == [byte |-> IF n = 0 THEN "" ELSE c, len |-> n]
BytesLength(s) == s.len
EmptyString == Repeat("", 0)

VARIABLES deployed, blockNumber, storage, receipt, history

vars == <<deployed, blockNumber, storage, receipt, history>>

\* -------------------------------------------------------------- receipts
\* what a call leaves behind: the function called, "ok" or the revert reason,
\* the events logged, the value returned
Receipt(fn, status, logs, ret) ==
  [fn |-> fn, status |-> status, logs |-> logs, ret |-> ret]

\* the call commits st and logs its events
Ok(st, fn, logs, ret) == [storage |-> st, receipt |-> Receipt(fn, "ok", logs, ret)]

\* require(false, reason): storage stays st, nothing is logged
Revert(st, fn, reason) == [storage |-> st, receipt |-> Receipt(fn, reason, <<>>, <<>>)]

\* Solidity 0.8 checked arithmetic: x-- on 0 reverts with Panic(0x11)
PanicUnderflow == "Panic(0x11)"

\* ===================================================== FreeEducationCenter
FEC == "FreeEducationCenter"

FEC_Content(id, title, description, url, photo, upvotes, downvotes) ==
  [id |-> id, title |-> title, description |-> description, url |-> url,
   photo |-> photo, upvotes |-> upvotes, downvotes |-> downvotes]

FEC_Init_one ==
  [contentsCount |-> 1,
   contents |-> [i \in Ids |->
                   FEC_Content(0, EmptyString, EmptyString, EmptyString, EmptyString, 0, 0)],
   userVotes |-> [i \in Ids |-> [a \in Addresses |-> None]]]

FEC_Init ==
  [contentsCount |-> 0,
   contents |-> [i \in Ids |->
                   FEC_Content(0, EmptyString, EmptyString, EmptyString, EmptyString, 0, 0)],
   userVotes |-> [i \in Ids |-> [a \in Addresses |-> None]]]

\* mutant: the empty title is not rejected
FEC_titleOk_emptyAllowed(_title) == BytesLength(_title) < 50

FEC_titleOk(_title) == BytesLength(_title) > 0 /\ BytesLength(_title) < 50

FEC_descriptionOk(_description) ==
  BytesLength(_description) > 0 /\ BytesLength(_description) < 500

FEC_urlOk(_url) == BytesLength(_url) > 0 /\ BytesLength(_url) < 200

FEC_photoOk(_photo) == BytesLength(_photo) < 200

\* mutant: the id is read before the counter is incremented
FEC_newId_stale(st) == st.contentsCount

FEC_newId(st) == st.contentsCount + 1

FEC_addContent(st, sender, _title, _description, _url, _photo) ==
  LET call == "addContent"
      newId == FEC_newId(st)
  IN
  IF ~FEC_titleOk(_title) THEN
    Revert(st, call, "FEC: Title must be between 1 and 49 characters")
  ELSE IF ~FEC_descriptionOk(_description) THEN
    Revert(st, call, "FEC: Description must be between 1 and 499 characters")
  ELSE IF ~FEC_urlOk(_url) THEN
    Revert(st, call, "FEC: URL must be between 1 and 199 characters")
  ELSE IF ~FEC_photoOk(_photo) THEN
    Revert(st, call, "FEC: Photo URL must be less than 199 characters")
  ELSE
    Ok([st EXCEPT
          !.contentsCount = newId,
          !.contents[newId] =
             FEC_Content(newId, _title, _description, _url, _photo, 0, 0)],
       call,
       <<[name |-> "ContentPublished", id |-> newId, title |-> _title,
          publisher |-> sender]>>,
       <<>>)

\* mutant: id 0 passes the existence check
FEC_idExists_zeroAllowed(st, _id) == _id <= st.contentsCount

FEC_idExists(st, _id) == _id > 0 /\ _id <= st.contentsCount

FEC_voteTypeOk(_voteType) == _voteType = Upvote \/ _voteType = Downvote

\* mutant: the old bucket is never decremented
FEC_revertPrevious_forgotten(c, existingVote) == c

\* "Revert the previous vote count, if any."
FEC_revertPrevious(c, existingVote) ==
  IF existingVote = Upvote THEN [c EXCEPT !.upvotes = @ - 1]
  ELSE IF existingVote = Downvote THEN [c EXCEPT !.downvotes = @ - 1]
  ELSE c

\* "Apply the new vote count."
FEC_applyNew(c, _voteType) ==
  IF _voteType = Upvote THEN [c EXCEPT !.upvotes = @ + 1]
  ELSE [c EXCEPT !.downvotes = @ + 1]

\* mutant: the swap branch runs on every vote
FEC_voteDiffers_always(existingVote, _voteType) == TRUE

\* "Proceed only if the new vote is different from the existing one."
FEC_voteDiffers(existingVote, _voteType) == existingVote # _voteType

FEC_vote(st, sender, _id, _voteType) ==
  LET call == "vote"
      contentToVote == st.contents[_id]
      existingVote == st.userVotes[_id][sender]
      reverted == FEC_revertPrevious(contentToVote, existingVote)
  IN
  IF ~FEC_idExists(st, _id) THEN
    Revert(st, call, "FEC: Content ID does not exist")
  ELSE IF ~FEC_voteTypeOk(_voteType) THEN
    Revert(st, call, "FEC: Invalid vote type")
  ELSE IF FEC_voteDiffers(existingVote, _voteType) THEN
    IF reverted.upvotes < 0 \/ reverted.downvotes < 0 THEN
      Revert(st, call, PanicUnderflow)
    ELSE
      Ok([st EXCEPT
            !.contents[_id] = FEC_applyNew(reverted, _voteType),
            !.userVotes[_id][sender] = _voteType],
         call,
         <<[name |-> "Voted", id |-> _id, voter |-> sender, voteType |-> _voteType]>>,
         <<>>)
  ELSE
    Ok(st, call, <<>>, <<>>)

FEC_hasMoreUpvotes(st, _id) ==
  LET call == "hasMoreUpvotes" IN
  IF ~FEC_idExists(st, _id) THEN
    Revert(st, call, "FEC: Content ID does not exist")
  ELSE
    Ok(st, call, <<>>, <<st.contents[_id].upvotes > st.contents[_id].downvotes>>)

\* addContent inputs: the shortest and the longest content the code accepts,
\* and the shortest with one field at a length the code rejects
FEC_ValidInputs ==
  { <<Repeat("a", 1), Repeat("a", 1), Repeat("a", 1), EmptyString>>,
    <<Repeat("b", 49), Repeat("b", 499), Repeat("b", 199), Repeat("b", 199)>> }

FEC_InvalidInputs ==
  { <<Repeat("a", n), Repeat("a", 1), Repeat("a", 1), EmptyString>> : n \in {0, 50} }
  \cup { <<Repeat("a", 1), Repeat("a", n), Repeat("a", 1), EmptyString>> : n \in {0, 500} }
  \cup { <<Repeat("a", 1), Repeat("a", 1), Repeat("a", n), EmptyString>> : n \in {0, 200} }
  \cup { <<Repeat("a", 1), Repeat("a", 1), Repeat("a", 1), Repeat("a", n)>> : n \in {200} }

\* ====================================================== GlobalPlantCatalog
GPC == "GlobalPlantCatalog"

GPC_Plant_noCreator(id, popularName, scientificName, taxonomy, description, photoHash, creator, createdAt, upvotes, downvotes) ==
  [id |-> id, popularName |-> popularName, scientificName |-> scientificName,
   taxonomy |-> taxonomy, description |-> description, photoHash |-> photoHash,
   creator |-> 0, createdAt |-> createdAt,
   upvotes |-> upvotes, downvotes |-> downvotes]

GPC_Plant(id, popularName, scientificName, taxonomy, description, photoHash, creator, createdAt, upvotes, downvotes) ==
  [id |-> id, popularName |-> popularName, scientificName |-> scientificName,
   taxonomy |-> taxonomy, description |-> description, photoHash |-> photoHash,
   creator |-> creator, createdAt |-> createdAt,
   upvotes |-> upvotes, downvotes |-> downvotes]

\* address(0) is 0
GPC_Init ==
  [nextPlantId |-> 0,
   plants |-> [i \in Ids |->
                 GPC_Plant(0, EmptyString, EmptyString, EmptyString, EmptyString,
                           EmptyString, 0, 0, 0, 0)],
   userVotes |-> [i \in Ids |-> [a \in Addresses |-> None]],
   creatorPlants |-> [a \in Addresses |-> <<>>]]

\* mutant: the limit itself is accepted
GPC_popularNameOk_inclusive(s) == BytesLength(s) > 0 /\ BytesLength(s) <= 50

GPC_popularNameOk(s) == BytesLength(s) > 0 /\ BytesLength(s) < 50

GPC_scientificNameOk(s) == BytesLength(s) > 0 /\ BytesLength(s) < 100

GPC_taxonomyOk(s) == BytesLength(s) > 0 /\ BytesLength(s) < 300

GPC_descriptionOk(s) == BytesLength(s) > 0 /\ BytesLength(s) < 300

GPC_photoHashOk(s) == BytesLength(s) > 0 /\ BytesLength(s) < 150

GPC_addPlant(st, sender, number, _popularName, _scientificName, _taxonomy, _description, _photoHash) ==
  LET call == "addPlant"
      currentId == st.nextPlantId
  IN
  IF ~GPC_popularNameOk(_popularName) THEN
    Revert(st, call, "String must be between 1 and 49 characters")
  ELSE IF ~GPC_scientificNameOk(_scientificName) THEN
    Revert(st, call, "String must be between 1 and 99 characters")
  ELSE IF ~GPC_taxonomyOk(_taxonomy) THEN
    Revert(st, call, "String must be between 1 and 299 characters")
  ELSE IF ~GPC_descriptionOk(_description) THEN
    Revert(st, call, "String must be between 1 and 299 characters")
  ELSE IF ~GPC_photoHashOk(_photoHash) THEN
    Revert(st, call, "String must be between 1 and 149 characters")
  ELSE
    Ok([st EXCEPT
          !.plants[currentId] =
             GPC_Plant(currentId, _popularName, _scientificName, _taxonomy,
                       _description, _photoHash, sender, number, 0, 0),
          !.creatorPlants[sender] = Append(@, currentId),
          !.nextPlantId = @ + 1],
       call,
       <<[name |-> "PlantAdded", id |-> currentId, creator |-> sender,
          popularName |-> _popularName, scientificName |-> _scientificName,
          createdAt |-> number]>>,
       <<>>)

GPC_idExists_inclusive(st, _plantId) == _plantId <= st.nextPlantId

GPC_idExists(st, _plantId) == _plantId < st.nextPlantId

\* mutant: the vote type is not checked
GPC_voteTypeOk_any(_voteType) == TRUE

GPC_voteTypeOk(_voteType) == _voteType = Upvote \/ _voteType = Downvote

GPC_revertPrevious(p, existingVote) ==
  IF existingVote = Upvote THEN [p EXCEPT !.upvotes = @ - 1]
  ELSE IF existingVote = Downvote THEN [p EXCEPT !.downvotes = @ - 1]
  ELSE p

GPC_applyNew_clearing(p, _voteType) ==
  IF _voteType = Upvote THEN [p EXCEPT !.upvotes = @ + 1, !.downvotes = 0]
  ELSE [p EXCEPT !.downvotes = @ + 1, !.upvotes = 0]

GPC_applyNew(p, _voteType) ==
  IF _voteType = Upvote THEN [p EXCEPT !.upvotes = @ + 1]
  ELSE [p EXCEPT !.downvotes = @ + 1]

\* "Proceed only if the new vote is different from the existing one."
GPC_voteDiffers(existingVote, _voteType) == existingVote # _voteType

GPC_vote(st, sender, _plantId, _voteType) ==
  LET call == "vote"
      plantToVote == st.plants[_plantId]
      existingVote == st.userVotes[_plantId][sender]
      reverted == GPC_revertPrevious(plantToVote, existingVote)
  IN
  IF ~GPC_idExists(st, _plantId) THEN
    Revert(st, call, "GPC: Plant ID does not exist")
  ELSE IF ~GPC_voteTypeOk(_voteType) THEN
    Revert(st, call, "GPC: Invalid vote type")
  ELSE IF GPC_voteDiffers(existingVote, _voteType) THEN
    IF reverted.upvotes < 0 \/ reverted.downvotes < 0 THEN
      Revert(st, call, PanicUnderflow)
    ELSE
      Ok([st EXCEPT
            !.plants[_plantId] = GPC_applyNew(reverted, _voteType),
            !.userVotes[_plantId][sender] = _voteType],
         call,
         <<[name |-> "Voted", id |-> _plantId, voter |-> sender,
            voteType |-> _voteType]>>,
         <<>>)
  ELSE
    Ok(st, call, <<>>, <<>>)

GPC_hasMoreUpvotes_orEqual(st, _plantId) ==
  LET call == "hasMoreUpvotes" IN
  IF ~GPC_idExists(st, _plantId) THEN
    Revert(st, call, "GPC: Plant ID does not exist")
  ELSE
    Ok(st, call, <<>>, <<st.plants[_plantId].upvotes >= st.plants[_plantId].downvotes>>)

GPC_hasMoreUpvotes(st, _plantId) ==
  LET call == "hasMoreUpvotes" IN
  IF ~GPC_idExists(st, _plantId) THEN
    Revert(st, call, "GPC: Plant ID does not exist")
  ELSE
    Ok(st, call, <<>>, <<st.plants[_plantId].upvotes > st.plants[_plantId].downvotes>>)

\* addPlant inputs: the longest plant the code accepts (the record also varies
\* in creator and createdAt), and that plant with one field empty or at the
\* length the code rejects
GPC_ValidInputs ==
  { <<Repeat("p", 49), Repeat("s", 99), Repeat("t", 299), Repeat("d", 299),
      Repeat("h", 149)>> }

GPC_InvalidInputs ==
  { <<Repeat("p", n), Repeat("s", 99), Repeat("t", 299), Repeat("d", 299),
      Repeat("h", 149)>> : n \in {0, 50} }
  \cup { <<Repeat("p", 49), Repeat("s", n), Repeat("t", 299), Repeat("d", 299),
           Repeat("h", 149)>> : n \in {0, 100} }
  \cup { <<Repeat("p", 49), Repeat("s", 99), Repeat("t", n), Repeat("d", 299),
           Repeat("h", 149)>> : n \in {0, 300} }
  \cup { <<Repeat("p", 49), Repeat("s", 99), Repeat("t", 299), Repeat("d", n),
           Repeat("h", 149)>> : n \in {0, 300} }
  \cup { <<Repeat("p", 49), Repeat("s", 99), Repeat("t", 299), Repeat("d", 299),
           Repeat("h", n)>> : n \in {0, 150} }

\* ======================================================== WhitepaperCenter
\* the voting version of the contract
WPC == "WhitepaperCenter"

WPC_Whitepaper(id, title, description, url, upvotes, downvotes) ==
  [id |-> id, title |-> title, description |-> description, url |-> url,
   upvotes |-> upvotes, downvotes |-> downvotes]

WPC_Init ==
  [whitepapersCount |-> 0,
   whitepapers |-> [i \in Ids |->
                      WPC_Whitepaper(0, EmptyString, EmptyString, EmptyString, 0, 0)],
   hasPublished |-> [a \in Addresses |-> FALSE],
   userVotes |-> [i \in Ids |-> [a \in Addresses |-> None]]]

WPC_titleOk(_title) == BytesLength(_title) > 0 /\ BytesLength(_title) < 50

WPC_descriptionOk(_description) ==
  BytesLength(_description) > 0 /\ BytesLength(_description) < 500

WPC_urlOk(_url) == BytesLength(_url) > 0 /\ BytesLength(_url) < 200

WPC_addWhitepaper(st, sender, _title, _description, _url) ==
  LET call == "addWhitepaper"
      newId == st.whitepapersCount + 1
  IN
  IF ~WPC_titleOk(_title) THEN
    Revert(st, call, "Title must be between 1 and 49 characters")
  ELSE IF ~WPC_descriptionOk(_description) THEN
    Revert(st, call, "Description must be between 1 and 499 characters")
  ELSE IF ~WPC_urlOk(_url) THEN
    Revert(st, call, "URL must be between 1 and 199 characters")
  ELSE IF st.hasPublished[sender] THEN
    Revert(st, call, "Only one paper allowed")
  ELSE
    Ok([st EXCEPT
          !.whitepapersCount = newId,
          !.whitepapers[newId] = WPC_Whitepaper(newId, _title, _description, _url, 0, 0),
          !.hasPublished[sender] = TRUE],
       call,
       <<[name |-> "WhitepaperPublished", id |-> newId, title |-> _title,
          publisher |-> sender]>>,
       <<>>)

WPC_idExists(st, _id) == _id > 0 /\ _id <= st.whitepapersCount

WPC_voteTypeOk(_voteType) == _voteType = Upvote \/ _voteType = Downvote

WPC_revertPrevious_swapped(w, existingVote) ==
  IF existingVote = Upvote THEN [w EXCEPT !.downvotes = @ - 1]
  ELSE IF existingVote = Downvote THEN [w EXCEPT !.upvotes = @ - 1]
  ELSE w

WPC_revertPrevious(w, existingVote) ==
  IF existingVote = Upvote THEN [w EXCEPT !.upvotes = @ - 1]
  ELSE IF existingVote = Downvote THEN [w EXCEPT !.downvotes = @ - 1]
  ELSE w

\* mutant: the buckets are swapped
WPC_applyNew_swapped(w, _voteType) ==
  IF _voteType = Upvote THEN [w EXCEPT !.downvotes = @ + 1]
  ELSE [w EXCEPT !.upvotes = @ + 1]

WPC_applyNew(w, _voteType) ==
  IF _voteType = Upvote THEN [w EXCEPT !.upvotes = @ + 1]
  ELSE [w EXCEPT !.downvotes = @ + 1]

\* "Proceed only if the new vote is different from the existing one."
WPC_voteDiffers(existingVote, _voteType) == existingVote # _voteType

\* this vote stores the new vote and logs nothing
WPC_vote(st, sender, _id, _voteType) ==
  LET call == "vote"
      contentToVote == st.whitepapers[_id]
      existingVote == st.userVotes[_id][sender]
      reverted == WPC_revertPrevious(contentToVote, existingVote)
  IN
  IF ~WPC_idExists(st, _id) THEN
    Revert(st, call, "Whitepaper ID does not exist")
  ELSE IF ~WPC_voteTypeOk(_voteType) THEN
    Revert(st, call, "Invalid vote type")
  ELSE IF WPC_voteDiffers(existingVote, _voteType) THEN
    IF reverted.upvotes < 0 \/ reverted.downvotes < 0 THEN
      Revert(st, call, PanicUnderflow)
    ELSE
      Ok([st EXCEPT
            !.whitepapers[_id] = WPC_applyNew(reverted, _voteType),
            !.userVotes[_id][sender] = _voteType],
         call, <<>>, <<>>)
  ELSE
    Ok(st, call, <<>>, <<>>)

WPC_hasMoreUpvotes(st, _id) ==
  LET call == "hasMoreUpvotes" IN
  IF ~WPC_idExists(st, _id) THEN
    Revert(st, call, "Whitepaper ID does not exist")
  ELSE
    Ok(st, call, <<>>, <<st.whitepapers[_id].upvotes > st.whitepapers[_id].downvotes>>)

WPC_ValidInputs ==
  { <<Repeat("a", 1), Repeat("a", 1), Repeat("a", 1)>>,
    <<Repeat("b", 49), Repeat("b", 499), Repeat("b", 199)>> }

WPC_InvalidInputs ==
  { <<Repeat("a", n), Repeat("a", 1), Repeat("a", 1)>> : n \in {0, 50} }
  \cup { <<Repeat("a", 1), Repeat("a", n), Repeat("a", 1)>> : n \in {0, 500} }
  \cup { <<Repeat("a", 1), Repeat("a", 1), Repeat("a", n)>> : n \in {0, 200} }

\* ============================================ SintropAppStore (ImpactApps)
SAS == "SintropAppStore"

SAS_ImpactApp(id, publisher, name, description, icon, repositoryUrl, externalLink, contractAddresses, positiveVotes, negativeVotes) ==
  [id |-> id, publisher |-> publisher, name |-> name, description |-> description,
   icon |-> icon, repositoryUrl |-> repositoryUrl, externalLink |-> externalLink,
   contractAddresses |-> contractAddresses,
   positiveVotes |-> positiveVotes, negativeVotes |-> negativeVotes]

SAS_Init ==
  [impactAppsCount |-> 0,
   impactApps |-> [i \in Ids |->
                     SAS_ImpactApp(0, 0, EmptyString, EmptyString, EmptyString,
                                   EmptyString, EmptyString, <<>>, 0, 0)],
   impactAppVotes |-> [i \in Ids |-> [a \in Addresses |-> None]]]

SAS_nameOk(s) == BytesLength(s) > 0 /\ BytesLength(s) <= 100

SAS_descriptionOk(s) == BytesLength(s) > 0 /\ BytesLength(s) <= 1000

SAS_iconOk_exclusive(s) == BytesLength(s) > 0 /\ BytesLength(s) < 150

SAS_iconOk(s) == BytesLength(s) > 0 /\ BytesLength(s) <= 150

SAS_repositoryUrlOk(s) == BytesLength(s) > 0 /\ BytesLength(s) <= 200

SAS_externalLinkOk(s) == BytesLength(s) > 0 /\ BytesLength(s) <= 200

SAS_registerImpactApp(st, sender, _name, _description, _icon, _repositoryUrl, _externalLink, _contractAddresses) ==
  LET call == "registerImpactApp"
      newImpactAppId == st.impactAppsCount + 1
  IN
  IF ~SAS_nameOk(_name) THEN
    Revert(st, call, "Name must be between 1 and 100 characters.")
  ELSE IF ~SAS_descriptionOk(_description) THEN
    Revert(st, call, "Description must be between 1 and 1000 characters.")
  ELSE IF ~SAS_iconOk(_icon) THEN
    Revert(st, call, "Icon must be between 1 and 150 characters.")
  ELSE IF ~SAS_repositoryUrlOk(_repositoryUrl) THEN
    Revert(st, call, "Repository URL must be between 1 and 200 characters.")
  ELSE IF ~SAS_externalLinkOk(_externalLink) THEN
    Revert(st, call, "External link must be between 1 and 200 characters.")
  ELSE IF ~(Len(_contractAddresses) > 0) THEN
    Revert(st, call, "Must include at least one contract address.")
  ELSE
    Ok([st EXCEPT
          !.impactAppsCount = newImpactAppId,
          !.impactApps[newImpactAppId] =
             SAS_ImpactApp(newImpactAppId, sender, _name, _description, _icon,
                           _repositoryUrl, _externalLink, _contractAddresses, 0, 0)],
       call,
       <<[name |-> "ImpactAppRegistered", id |-> newImpactAppId, title |-> _name,
          publisher |-> sender]>>,
       <<>>)

SAS_idExists(st, _impactAppId) == _impactAppId > 0 /\ _impactAppId <= st.impactAppsCount

SAS_voteTypeOk_any(_voteType) == TRUE

SAS_voteTypeOk(_voteType) == _voteType = Positive \/ _voteType = Negative

\* mutant: only a previous Positive vote is taken back
SAS_revertPrevious_positiveOnly(app, existingVote) ==
  IF existingVote = Positive THEN [app EXCEPT !.positiveVotes = @ - 1] ELSE app

SAS_revertPrevious(app, existingVote) ==
  IF existingVote = Positive THEN [app EXCEPT !.positiveVotes = @ - 1]
  ELSE IF existingVote = Negative THEN [app EXCEPT !.negativeVotes = @ - 1]
  ELSE app

SAS_applyNew(app, _voteType) ==
  IF _voteType = Positive THEN [app EXCEPT !.positiveVotes = @ + 1]
  ELSE [app EXCEPT !.negativeVotes = @ + 1]

\* "Proceed only if the new vote is different from the existing one."
SAS_voteDiffers(existingVote, _voteType) == existingVote # _voteType

SAS_voteForImpactApp(st, sender, _impactAppId, _voteType) ==
  LET call == "voteForImpactApp"
      impactappToVote == st.impactApps[_impactAppId]
      existingVote == st.impactAppVotes[_impactAppId][sender]
      reverted == SAS_revertPrevious(impactappToVote, existingVote)
  IN
  IF ~SAS_idExists(st, _impactAppId) THEN
    Revert(st, call, "Invalid ImpactApp ID.")
  ELSE IF ~SAS_voteTypeOk(_voteType) THEN
    Revert(st, call, "Invalid vote type.")
  ELSE IF SAS_voteDiffers(existingVote, _voteType) THEN
    IF reverted.positiveVotes < 0 \/ reverted.negativeVotes < 0 THEN
      Revert(st, call, PanicUnderflow)
    ELSE
      Ok([st EXCEPT
            !.impactApps[_impactAppId] = SAS_applyNew(reverted, _voteType),
            !.impactAppVotes[_impactAppId][sender] = _voteType],
         call,
         <<[name |-> "ImpactAppVoted", id |-> _impactAppId, voter |-> sender,
            voteType |-> _voteType]>>,
         <<>>)
  ELSE
    Ok(st, call, <<>>, <<>>)

\* mutant: a tie counts as sustainable
SAS_isImpactAppSustainable_orEqual(st, _impactAppId) ==
  LET call == "isImpactAppSustainable"
      impactapp == st.impactApps[_impactAppId]
  IN
  IF ~SAS_idExists(st, _impactAppId) THEN
    Revert(st, call, "Invalid ImpactApp ID.")
  ELSE
    Ok(st, call, <<>>, <<impactapp.positiveVotes >= impactapp.negativeVotes>>)

SAS_isImpactAppSustainable(st, _impactAppId) ==
  LET call == "isImpactAppSustainable"
      impactapp == st.impactApps[_impactAppId]
  IN
  IF ~SAS_idExists(st, _impactAppId) THEN
    Revert(st, call, "Invalid ImpactApp ID.")
  ELSE
    Ok(st, call, <<>>, <<impactapp.positiveVotes > impactapp.negativeVotes>>)

\* registerImpactApp inputs: the longest app the code accepts (the record also
\* varies in publisher), and that app with one field empty or one byte too
\* long, or with no contract address
SAS_ValidInputs ==
  { <<Repeat("n", 100), Repeat("d", 1000), Repeat("i", 150), Repeat("r", 200),
      Repeat("e", 200), <<1>>>> }

SAS_InvalidInputs ==
  { <<Repeat("n", n), Repeat("d", 1000), Repeat("i", 150), Repeat("r", 200),
      Repeat("e", 200), <<1>>>> : n \in {0, 101} }
  \cup { <<Repeat("n", 100), Repeat("d", n), Repeat("i", 150), Repeat("r", 200),
           Repeat("e", 200), <<1>>>> : n \in {0, 1001} }
  \cup { <<Repeat("n", 100), Repeat("d", 1000), Repeat("i", n), Repeat("r", 200),
           Repeat("e", 200), <<1>>>> : n \in {0, 151} }
  \cup { <<Repeat("n", 100), Repeat("d", 1000), Repeat("i", 150), Repeat("r", n),
           Repeat("e", 200), <<1>>>> : n \in {0, 201} }
  \cup { <<Repeat("n", 100), Repeat("d", 1000), Repeat("i", 150), Repeat("r", 200),
           Repeat("e", n), <<1>>>> : n \in {0, 201} }
  \cup { <<Repeat("n", 100), Repeat("d", 1000), Repeat("i", 150), Repeat("r", 200),
           Repeat("e", 200), <<>>>> }

\* ================================================= SintropAppStore (DApps)
\* the earlier version of the app store, without the icon
DAPP == "SintropAppStore.sol"

DAPP_DApp(id, publisher, name, description, repositoryUrl, externalLink, contractAddresses, positiveVotes, negativeVotes) ==
  [id |-> id, publisher |-> publisher, name |-> name, description |-> description,
   repositoryUrl |-> repositoryUrl, externalLink |-> externalLink,
   contractAddresses |-> contractAddresses,
   positiveVotes |-> positiveVotes, negativeVotes |-> negativeVotes]

DAPP_Init ==
  [dAppsCount |-> 0,
   dApps |-> [i \in Ids |->
                DAPP_DApp(0, 0, EmptyString, EmptyString, EmptyString, EmptyString,
                          <<>>, 0, 0)],
   dAppVotes |-> [i \in Ids |-> [a \in Addresses |-> None]]]

DAPP_registerDApp(st, sender, _name, _description, _repositoryUrl, _externalLink, _contractAddresses) ==
  LET call == "registerDApp"
      newDAppId == st.dAppsCount + 1
  IN
  IF ~(BytesLength(_name) > 0 /\ BytesLength(_name) <= 100) THEN
    Revert(st, call, "Name must be between 1 and 100 characters.")
  ELSE IF ~(BytesLength(_description) > 0 /\ BytesLength(_description) <= 1000) THEN
    Revert(st, call, "Description must be between 1 and 1000 characters.")
  ELSE IF ~(BytesLength(_repositoryUrl) > 0 /\ BytesLength(_repositoryUrl) <= 200) THEN
    Revert(st, call, "Repository URL must be between 1 and 200 characters.")
  ELSE IF ~(BytesLength(_externalLink) > 0 /\ BytesLength(_externalLink) <= 200) THEN
    Revert(st, call, "External link must be between 1 and 200 characters.")
  ELSE IF ~(Len(_contractAddresses) > 0) THEN
    Revert(st, call, "Must include at least one contract address.")
  ELSE
    Ok([st EXCEPT
          !.dAppsCount = newDAppId,
          !.dApps[newDAppId] =
             DAPP_DApp(newDAppId, sender, _name, _description, _repositoryUrl,
                       _externalLink, _contractAddresses, 0, 0)],
       call,
       <<[name |-> "DAppRegistered", id |-> newDAppId, title |-> _name,
          publisher |-> sender]>>,
       <<>>)

DAPP_idExists(st, _dAppId) == _dAppId > 0 /\ _dAppId <= st.dAppsCount

DAPP_revertPrevious(app, existingVote) ==
  IF existingVote = Positive THEN [app EXCEPT !.positiveVotes = @ - 1]
  ELSE IF existingVote = Negative THEN [app EXCEPT !.negativeVotes = @ - 1]
  ELSE app

DAPP_applyNew(app, _voteType) ==
  IF _voteType = Positive THEN [app EXCEPT !.positiveVotes = @ + 1]
  ELSE [app EXCEPT !.negativeVotes = @ + 1]

\* "Proceed only if the new vote is different from the existing one."
DAPP_voteDiffers(existingVote, _voteType) == existingVote # _voteType

DAPP_voteForDApp_shared(st, sender, _dAppId, _voteType) ==
  LET call == "voteForDApp"
      dappToVote == st.dApps[_dAppId]
      existingVote == st.dAppVotes[_dAppId][sender]
      reverted == DAPP_revertPrevious(dappToVote, existingVote)
  IN
  IF ~DAPP_idExists(st, _dAppId) THEN
    Revert(st, call, "Invalid DApp ID.")
  ELSE IF ~(_voteType = Positive \/ _voteType = Negative) THEN
    Revert(st, call, "Invalid vote type.")
  ELSE IF DAPP_voteDiffers(existingVote, _voteType) THEN
    IF reverted.positiveVotes < 0 \/ reverted.negativeVotes < 0 THEN
      Revert(st, call, PanicUnderflow)
    ELSE
      Ok([st EXCEPT
            !.dApps[_dAppId] = DAPP_applyNew(reverted, _voteType),
            !.dAppVotes[_dAppId] = [a \in Addresses |-> _voteType]],
         call,
         <<[name |-> "DAppVoted", id |-> _dAppId, voter |-> sender,
            voteType |-> _voteType]>>,
         <<>>)
  ELSE
    Ok(st, call, <<>>, <<>>)

DAPP_voteForDApp(st, sender, _dAppId, _voteType) ==
  LET call == "voteForDApp"
      dappToVote == st.dApps[_dAppId]
      existingVote == st.dAppVotes[_dAppId][sender]
      reverted == DAPP_revertPrevious(dappToVote, existingVote)
  IN
  IF ~DAPP_idExists(st, _dAppId) THEN
    Revert(st, call, "Invalid DApp ID.")
  ELSE IF ~(_voteType = Positive \/ _voteType = Negative) THEN
    Revert(st, call, "Invalid vote type.")
  ELSE IF DAPP_voteDiffers(existingVote, _voteType) THEN
    IF reverted.positiveVotes < 0 \/ reverted.negativeVotes < 0 THEN
      Revert(st, call, PanicUnderflow)
    ELSE
      Ok([st EXCEPT
            !.dApps[_dAppId] = DAPP_applyNew(reverted, _voteType),
            !.dAppVotes[_dAppId][sender] = _voteType],
         call,
         <<[name |-> "DAppVoted", id |-> _dAppId, voter |-> sender,
            voteType |-> _voteType]>>,
         <<>>)
  ELSE
    Ok(st, call, <<>>, <<>>)

DAPP_isDAppSustainable(st, _dAppId) ==
  LET call == "isDAppSustainable"
      dapp == st.dApps[_dAppId]
  IN
  IF ~DAPP_idExists(st, _dAppId) THEN
    Revert(st, call, "Invalid DApp ID.")
  ELSE
    Ok(st, call, <<>>, <<dapp.positiveVotes > dapp.negativeVotes>>)

DAPP_ValidInputs ==
  { <<Repeat("n", 100), Repeat("d", 1000), Repeat("r", 200), Repeat("e", 200), <<1>>>> }

DAPP_InvalidInputs ==
  { <<Repeat("n", n), Repeat("d", 1000), Repeat("r", 200), Repeat("e", 200), <<1>>>> :
      n \in {0, 101} }
  \cup { <<Repeat("n", 100), Repeat("d", n), Repeat("r", 200), Repeat("e", 200), <<1>>>> :
           n \in {0, 1001} }
  \cup { <<Repeat("n", 100), Repeat("d", 1000), Repeat("r", n), Repeat("e", 200), <<1>>>> :
           n \in {0, 201} }
  \cup { <<Repeat("n", 100), Repeat("d", 1000), Repeat("r", 200), Repeat("e", n), <<1>>>> :
           n \in {0, 201} }
  \cup { <<Repeat("n", 100), Repeat("d", 1000), Repeat("r", 200), Repeat("e", 200), <<>>>> }

\* ===================================================== get-by-id accessors
\* mutant: the accessor reads the key before the one asked for
FEC_getContent_offByOne(st, _id) ==
  LET call == "getContent" IN
  IF ~FEC_idExists(st, _id) THEN Revert(st, call, "FEC: Content ID does not exist")
  ELSE Ok(st, call, <<>>, <<st.contents[_id - 1]>>)

FEC_getContent(st, _id) ==
  LET call == "getContent" IN
  IF ~FEC_idExists(st, _id) THEN Revert(st, call, "FEC: Content ID does not exist")
  ELSE Ok(st, call, <<>>, <<st.contents[_id]>>)

GPC_getPlant(st, _plantId) ==
  LET call == "getPlant" IN
  IF ~GPC_idExists(st, _plantId) THEN Revert(st, call, "Plant ID does not exist")
  ELSE Ok(st, call, <<>>, <<st.plants[_plantId]>>)

WPC_getWhitepaper(st, _id) ==
  LET call == "getWhitepaper" IN
  IF ~WPC_idExists(st, _id) THEN Revert(st, call, "Whitepaper ID does not exist")
  ELSE Ok(st, call, <<>>, <<st.whitepapers[_id]>>)

\* ========================================================= EducationCenter
\* "First version of the Sintrop Education Center": no validation, no
\* events, no votes
EDU == "EducationCenter"

EDU_Init ==
  [contentsCount |-> 0,
   contents |-> [i \in Ids |->
                   [id |-> 0, title |-> EmptyString, description |-> EmptyString,
                    url |-> EmptyString, photo |-> EmptyString]]]

EDU_addContent(st, sender, title, description, url, photo) ==
  LET id == st.contentsCount + 1 IN
  Ok([st EXCEPT
        !.contentsCount = id,
        !.contents[id] = [id |-> id, title |-> title, description |-> description,
                          url |-> url, photo |-> photo]],
     "addContent", <<>>, <<>>)

\* no require: an unwritten key reads as the zero Content
EDU_getContent(st, id) == Ok(st, "getContent", <<>>, <<st.contents[id]>>)

\* nothing is validated: the contents FreeEducationCenter accepts, and the
\* empty one
EDU_Inputs ==
  FEC_ValidInputs \cup {<<EmptyString, EmptyString, EmptyString, EmptyString>>}

\* ================================== FreeEducationCenter, the earlier version
\* the second contract of FreeEducationCenter.sol: contents without votes
FEC2 == "FreeEducationCenter (no votes)"

FEC2_Init ==
  [contentsCount |-> 0,
   contents |-> [i \in Ids |->
                   [id |-> 0, title |-> EmptyString, description |-> EmptyString,
                    url |-> EmptyString, photo |-> EmptyString]]]

FEC2_addContent(st, sender, _title, _description, _url, _photo) ==
  LET call == "addContent"
      newId == st.contentsCount + 1
  IN
  IF ~(BytesLength(_title) > 0 /\ BytesLength(_title) < 50) THEN
    Revert(st, call, "FEC: Title must be between 1 and 49 characters")
  ELSE IF ~(BytesLength(_description) > 0 /\ BytesLength(_description) < 500) THEN
    Revert(st, call, "FEC: Description must be between 1 and 499 characters")
  ELSE IF ~(BytesLength(_url) > 0 /\ BytesLength(_url) < 200) THEN
    Revert(st, call, "FEC: URL must be between 1 and 199 characters")
  ELSE IF ~(BytesLength(_photo) < 200) THEN
    Revert(st, call, "FEC: Photo URL must be less than 199 characters")
  ELSE
    Ok([st EXCEPT
          !.contentsCount = newId,
          !.contents[newId] = [id |-> newId, title |-> _title,
                               description |-> _description, url |-> _url,
                               photo |-> _photo]],
       call,
       <<[name |-> "ContentPublished", id |-> newId, title |-> _title,
          publisher |-> sender]>>,
       <<>>)

FEC2_getContent(st, _id) ==
  LET call == "getContent" IN
  IF ~(_id > 0 /\ _id <= st.contentsCount) THEN
    Revert(st, call, "FEC: Content ID does not exist")
  ELSE Ok(st, call, <<>>, <<st.contents[_id]>>)

\* ===================================== WhitepaperCenter, the earlier version
\* contracts/WhitepaperCenter.sol: no votes and no hasPublished map
WPC1 == "WhitepaperCenter (no votes)"

WPC1_Init ==
  [whitepapersCount |-> 0,
   whitepapers |-> [i \in Ids |->
                      [id |-> 0, title |-> EmptyString, description |-> EmptyString,
                       url |-> EmptyString]]]

WPC1_addWhitepaper(st, sender, _title, _description, _url) ==
  LET call == "addWhitepaper"
      newId == st.whitepapersCount + 1
  IN
  IF ~(BytesLength(_title) > 0 /\ BytesLength(_title) < 50) THEN
    Revert(st, call, "FEC: Title must be between 1 and 49 characters")
  ELSE IF ~(BytesLength(_description) > 0 /\ BytesLength(_description) < 500) THEN
    Revert(st, call, "FEC: Description must be between 1 and 499 characters")
  ELSE IF ~(BytesLength(_url) > 0 /\ BytesLength(_url) < 200) THEN
    Revert(st, call, "FEC: URL must be between 1 and 199 characters")
  ELSE
    Ok([st EXCEPT
          !.whitepapersCount = newId,
          !.whitepapers[newId] = [id |-> newId, title |-> _title,
                                  description |-> _description, url |-> _url]],
       call,
       <<[name |-> "WhitepaperPublished", id |-> newId, title |-> _title,
          publisher |-> sender]>>,
       <<>>)

WPC1_getWhitepaper(st, _id) ==
  LET call == "getWhitepaper" IN
  IF ~(_id > 0 /\ _id <= st.whitepapersCount) THEN
    Revert(st, call, "FEC: Whitepaper ID does not exist")
  ELSE Ok(st, call, <<>>, <<st.whitepapers[_id]>>)

\* SintropAppStore declares no get-by-id function; its by-id read is the
\* getter Solidity generates for `mapping(uint256 => ImpactApp) public
\* impactApps': no existence check, and the members of the struct without
\* the array
SAS_impactApps(st, _impactAppId) ==
  LET app == st.impactApps[_impactAppId] IN
  Ok(st, "impactApps", <<>>,
     <<[f \in DOMAIN app \ {"contractAddresses"} |-> app[f]]>>)

\* ======================================================= HumansPeaceTreaty
HPT == "HumansPeaceTreaty"

HPT_Signature_block0(hasSigned, lastProofBlock) ==
  [hasSigned |-> hasSigned, lastProofBlock |-> 0]

HPT_Signature(hasSigned, lastProofBlock) ==
  [hasSigned |-> hasSigned, lastProofBlock |-> lastProofBlock]

HPT_Init ==
  [pledges |-> [a \in Addresses |-> HPT_Signature(FALSE, 0)],
   totalSignatures |-> 0]

\* mutant: the pledge can be signed again
HPT_notYetSigned_any(st, sender) == TRUE

\* "The caller must not have already signed the pledge."
HPT_notYetSigned(st, sender) == ~st.pledges[sender].hasSigned

HPT_signPeacePledge(st, sender, number) ==
  LET call == "signPeacePledge" IN
  IF ~HPT_notYetSigned(st, sender) THEN
    Revert(st, call, "HumansPeaceTreaty: You have already signed this pledge.")
  ELSE
    Ok([st EXCEPT
          !.pledges[sender] = HPT_Signature(TRUE, number),
          !.totalSignatures = @ + 1],
       call,
       <<[name |-> "PledgeSigned", signer |-> sender, blockNumber |-> number]>>,
       <<>>)

\* mutant: anyone may prove
HPT_isSignatory_any(st, sender) == TRUE

\* "The caller must have signed the pledge before they can prove it."
HPT_isSignatory(st, sender) == st.pledges[sender].hasSigned

HPT_proveCommitment_counted(st, sender, number) ==
  LET call == "proveCommitment" IN
  IF ~HPT_isSignatory(st, sender) THEN
    Revert(st, call,
           "HumansPeaceTreaty: You must sign the pledge first before proving commitment.")
  ELSE
    Ok([st EXCEPT !.pledges[sender].lastProofBlock = number, !.totalSignatures = @ + 1],
       call,
       <<[name |-> "CommitmentProven", prover |-> sender, blockNumber |-> number]>>,
       <<>>)

HPT_proveCommitment(st, sender, number) ==
  LET call == "proveCommitment" IN
  IF ~HPT_isSignatory(st, sender) THEN
    Revert(st, call,
           "HumansPeaceTreaty: You must sign the pledge first before proving commitment.")
  ELSE
    Ok([st EXCEPT !.pledges[sender].lastProofBlock = number],
       call,
       <<[name |-> "CommitmentProven", prover |-> sender, blockNumber |-> number]>>,
       <<>>)

HPT_hasSigned(st, account) ==
  Ok(st, "hasSigned", <<>>, <<st.pledges[account].hasSigned>>)

\* ============================================================ RcTestReward
RCT == "RcTestReward"

REWARD_PER_TRANSACTION == 100
MAX_TRANSACTIONS_PER_TESTER == 1000

RCT_AuditReport(transactionCount, description, reportHash, tester, number) ==
  [transactionCount |-> transactionCount, description |-> description,
   reportHash |-> reportHash, tester |-> tester, blockNumber |-> number]

\* constructor(_durationInBlocks), mined in block `number'
RCT_constructor(_durationInBlocks, number) ==
  [startBlock |-> number,
   endBlock |-> number + _durationInBlocks,
   auditReports |-> [a \in Addresses |->
                       RCT_AuditReport(0, EmptyString, EmptyString, 0, 0)],
   _hasSubmittedReport |-> [a \in Addresses |-> FALSE]]

RCT_periodActive_always(st, number) == TRUE

RCT_periodActive(st, number) == number <= st.endBlock

\* mutant: the one-report rule is not enforced
RCT_notSubmitted_any(st, sender) == TRUE

RCT_notSubmitted(st, sender) == ~st._hasSubmittedReport[sender]

\* mutant: a report of no transactions is accepted
RCT_countOk_zeroAllowed(_transactionCount) ==
  IF _transactionCount <= MAX_TRANSACTIONS_PER_TESTER THEN "ok"
  ELSE "RcTestReward: Transaction count exceeds maximum limit."

\* the two requires on _transactionCount, in their order
RCT_countOk(_transactionCount) ==
  IF ~(_transactionCount > 0) THEN "RcTestReward: Transaction count must be positive."
  ELSE IF ~(_transactionCount <= MAX_TRANSACTIONS_PER_TESTER) THEN
    "RcTestReward: Transaction count exceeds maximum limit."
  ELSE "ok"

RCT_submitAuditReport(st, sender, number, _transactionCount, _description, _reportHash) ==
  LET call == "submitAuditReport" IN
  IF ~RCT_periodActive(st, number) THEN
    Revert(st, call, "RcTestReward: Testing period has ended.")
  ELSE IF ~RCT_notSubmitted(st, sender) THEN
    Revert(st, call, "RcTestReward: Report already submitted.")
  ELSE IF RCT_countOk(_transactionCount) # "ok" THEN
    Revert(st, call, RCT_countOk(_transactionCount))
  ELSE
    Ok([st EXCEPT
          !._hasSubmittedReport[sender] = TRUE,
          !.auditReports[sender] =
             RCT_AuditReport(_transactionCount, _description, _reportHash, sender,
                             number)],
       call, <<>>, <<>>)

RCT_getBlocksRemaining(st, number) ==
  Ok(st, "getBlocksRemaining", <<>>,
     <<IF number >= st.endBlock THEN 0 ELSE st.endBlock - number>>)

RCT_getOwedTokens(st, _tester) ==
  Ok(st, "getOwedTokens", <<>>,
     <<st.auditReports[_tester].transactionCount * REWARD_PER_TRANSACTION>>)

\* the testing period lasts 0 .. MaxBlock - 1 blocks, so that a run sees
\* blocks before, at and after endBlock
RCT_Durations == 0..(MaxBlock - 1)

\* reports: the counts on both sides of each limit, two texts
RCT_Inputs ==
  { <<n, Repeat("d", k), Repeat("h", k)>> :
      n \in {0, 1, MAX_TRANSACTIONS_PER_TESTER, MAX_TRANSACTIONS_PER_TESTER + 1},
      k \in {0, 1} }

\* ============================ GlobalPlantCatalog: the other read functions
GPC_getTotalPlantsCount(st) == Ok(st, "getTotalPlantsCount", <<>>, <<st.nextPlantId>>)

GPC_getPlantsByCreator_everyone(st, _creator) ==
  Ok(st, "getPlantsByCreator", <<>>, <<[i \in 1..st.nextPlantId |-> i - 1]>>)

GPC_getPlantsByCreator(st, _creator) ==
  Ok(st, "getPlantsByCreator", <<>>, <<st.creatorPlants[_creator]>>)

\* ==================================== GlobalPlantCatalog, the earlier version
\* no validation and no votes; a plant carries a list of photo hashes and
\* the timestamp of its block
GPC1 == "GlobalPlantCatalog (no votes)"

GPC1_Init ==
  [nextPlantId |-> 0,
   plants |-> [i \in Ids |->
                 [id |-> 0, popularName |-> EmptyString, scientificName |-> EmptyString,
                  taxonomy |-> EmptyString, description |-> EmptyString,
                  photoHashes |-> <<>>, creator |-> 0, createdAt |-> 0]],
   creatorPlants |-> [a \in Addresses |-> <<>>]]

GPC1_addPlant(st, sender, timestamp, _popularName, _scientificName, _taxonomy, _description, _photoHashes) ==
  LET currentId == st.nextPlantId IN
  Ok([st EXCEPT
        !.plants[currentId] =
           [id |-> currentId, popularName |-> _popularName,
            scientificName |-> _scientificName, taxonomy |-> _taxonomy,
            description |-> _description, photoHashes |-> _photoHashes,
            creator |-> sender, createdAt |-> timestamp],
        !.creatorPlants[sender] = Append(@, currentId),
        !.nextPlantId = @ + 1],
     "addPlant",
     <<[name |-> "PlantAdded", id |-> currentId, creator |-> sender,
        popularName |-> _popularName, scientificName |-> _scientificName,
        createdAt |-> timestamp]>>,
     <<>>)

GPC1_getTotalPlantsCount(st) == Ok(st, "getTotalPlantsCount", <<>>, <<st.nextPlantId>>)

\* for (uint256 i = 0; i < nextPlantId; i++) allIds[i] = i;
\* the array is indexed from 0, the sequence from 1
RECURSIVE GPC1_fillIds(_, _, _)

\* mutant: the loop body never runs
GPC1_fillIds_none(allIds, i, n) == allIds

GPC1_fillIds(allIds, i, n) ==
  IF i < n THEN GPC1_fillIds([allIds EXCEPT ![i + 1] = i], i + 1, n) ELSE allIds

\* new uint256[](nextPlantId) is zero-filled
GPC1_getAllPlantIds(st) ==
  Ok(st, "getAllPlantIds", <<>>,
     <<GPC1_fillIds([k \in 1..st.nextPlantId |-> 0], 0, st.nextPlantId)>>)

GPC1_getPlantsByCreator(st, _creator) ==
  Ok(st, "getPlantsByCreator", <<>>, <<st.creatorPlants[_creator]>>)

\* nothing is validated: a full plant with one photo, and the empty plant
GPC1_Inputs ==
  { <<Repeat("p", 49), Repeat("s", 99), Repeat("t", 299), Repeat("d", 299),
      <<Repeat("h", 149)>>>>,
    <<EmptyString, EmptyString, EmptyString, EmptyString, <<>>>> }

\* ============================================================ the chain
Contracts == {FEC, GPC, WPC, SAS, DAPP, EDU, FEC2, WPC1, HPT, RCT, GPC1}

InitStorage(c) ==
  CASE c = FEC -> FEC_Init
    [] c = GPC -> GPC_Init
    [] c = WPC -> WPC_Init
    [] c = SAS -> SAS_Init
    [] c = DAPP -> DAPP_Init
    [] c = EDU -> EDU_Init
    [] c = FEC2 -> FEC2_Init
    [] c = WPC1 -> WPC1_Init
    [] c = HPT -> HPT_Init
    [] c = GPC1 -> GPC1_Init

\* `history' records what has happened, for the properties only: how many
\* inserts have succeeded, and who has cast a successful vote on which id.
\* No call reads it.  The deploying transaction is mined in block 1.
Init ==
  /\ deployed \in Contracts
  /\ blockNumber = 1
  /\ storage \in IF deployed = RCT
                  THEN {RCT_constructor(d, blockNumber) : d \in RCT_Durations}
                  ELSE {InitStorage(deployed)}
  /\ receipt = Receipt("constructor", "ok", <<>>, <<>>)
  /\ history = [inserted |-> 0, voted |-> [i \in Ids |-> {}]]

\* one external call, applied atomically
Apply(r, h) ==
  /\ storage' = r.storage
  /\ receipt' = r.receipt
  /\ history' = h
  /\ UNCHANGED <<deployed, blockNumber>>

AfterInsert(r) ==
  IF r.receipt.status = "ok" THEN [history EXCEPT !.inserted = @ + 1] ELSE history

AfterVote(r, sender, id) ==
  IF r.receipt.status = "ok" THEN [history EXCEPT !.voted[id] = @ \cup {sender}]
  ELSE history

FEC_AddContent ==
  /\ deployed = FEC
  /\ \E sender \in Addresses, in \in FEC_ValidInputs \cup FEC_InvalidInputs :
       LET r == FEC_addContent(storage, sender, in[1], in[2], in[3], in[4]) IN
       /\ in \in FEC_ValidInputs => storage.contentsCount < MaxRecords
       /\ Apply(r, AfterInsert(r))

FEC_Vote ==
  /\ deployed = FEC
  /\ \E sender \in Addresses, _id \in Ids, _voteType \in VoteType :
       LET r == FEC_vote(storage, sender, _id, _voteType) IN
       Apply(r, AfterVote(r, sender, _id))

FEC_HasMoreUpvotes ==
  /\ deployed = FEC
  /\ \E _id \in Ids : Apply(FEC_hasMoreUpvotes(storage, _id), history)

GPC_AddPlant ==
  /\ deployed = GPC
  /\ \E sender \in Addresses, in \in GPC_ValidInputs \cup GPC_InvalidInputs :
       LET r == GPC_addPlant(storage, sender, blockNumber,
                             in[1], in[2], in[3], in[4], in[5]) IN
       /\ in \in GPC_ValidInputs => storage.nextPlantId < MaxRecords
       /\ Apply(r, AfterInsert(r))

GPC_Vote ==
  /\ deployed = GPC
  /\ \E sender \in Addresses, _plantId \in Ids, _voteType \in VoteType :
       LET r == GPC_vote(storage, sender, _plantId, _voteType) IN
       Apply(r, AfterVote(r, sender, _plantId))

GPC_HasMoreUpvotes ==
  /\ deployed = GPC
  /\ \E _plantId \in Ids : Apply(GPC_hasMoreUpvotes(storage, _plantId), history)

WPC_AddWhitepaper ==
  /\ deployed = WPC
  /\ \E sender \in Addresses, in \in WPC_ValidInputs \cup WPC_InvalidInputs :
       LET r == WPC_addWhitepaper(storage, sender, in[1], in[2], in[3]) IN
       /\ in \in WPC_ValidInputs => storage.whitepapersCount < MaxRecords
       /\ Apply(r, AfterInsert(r))

WPC_Vote ==
  /\ deployed = WPC
  /\ \E sender \in Addresses, _id \in Ids, _voteType \in VoteType :
       LET r == WPC_vote(storage, sender, _id, _voteType) IN
       Apply(r, AfterVote(r, sender, _id))

WPC_HasMoreUpvotes ==
  /\ deployed = WPC
  /\ \E _id \in Ids : Apply(WPC_hasMoreUpvotes(storage, _id), history)

SAS_RegisterImpactApp ==
  /\ deployed = SAS
  /\ \E sender \in Addresses, in \in SAS_ValidInputs \cup SAS_InvalidInputs :
       LET r == SAS_registerImpactApp(storage, sender,
                                      in[1], in[2], in[3], in[4], in[5], in[6]) IN
       /\ in \in SAS_ValidInputs => storage.impactAppsCount < MaxRecords
       /\ Apply(r, AfterInsert(r))

SAS_VoteForImpactApp ==
  /\ deployed = SAS
  /\ \E sender \in Addresses, _impactAppId \in Ids, _voteType \in VoteType :
       LET r == SAS_voteForImpactApp(storage, sender, _impactAppId, _voteType) IN
       Apply(r, AfterVote(r, sender, _impactAppId))

SAS_IsImpactAppSustainable ==
  /\ deployed = SAS
  /\ \E _impactAppId \in Ids :
       Apply(SAS_isImpactAppSustainable(storage, _impactAppId), history)

DAPP_RegisterDApp ==
  /\ deployed = DAPP
  /\ \E sender \in Addresses, in \in DAPP_ValidInputs \cup DAPP_InvalidInputs :
       LET r == DAPP_registerDApp(storage, sender, in[1], in[2], in[3], in[4], in[5]) IN
       /\ in \in DAPP_ValidInputs => storage.dAppsCount < MaxRecords
       /\ Apply(r, AfterInsert(r))

DAPP_VoteForDApp ==
  /\ deployed = DAPP
  /\ \E sender \in Addresses, _dAppId \in Ids, _voteType \in VoteType :
       LET r == DAPP_voteForDApp(storage, sender, _dAppId, _voteType) IN
       Apply(r, AfterVote(r, sender, _dAppId))

DAPP_IsDAppSustainable ==
  /\ deployed = DAPP
  /\ \E _dAppId \in Ids : Apply(DAPP_isDAppSustainable(storage, _dAppId), history)

FEC_GetContent ==
  /\ deployed = FEC
  /\ \E _id \in Ids : Apply(FEC_getContent(storage, _id), history)

GPC_GetPlant ==
  /\ deployed = GPC
  /\ \E _plantId \in Ids : Apply(GPC_getPlant(storage, _plantId), history)

WPC_GetWhitepaper ==
  /\ deployed = WPC
  /\ \E _id \in Ids : Apply(WPC_getWhitepaper(storage, _id), history)

SAS_ImpactApps ==
  /\ deployed = SAS
  /\ \E _impactAppId \in Ids : Apply(SAS_impactApps(storage, _impactAppId), history)

EDU_AddContent ==
  /\ deployed = EDU
  /\ storage.contentsCount < MaxRecords
  /\ \E sender \in Addresses, in \in EDU_Inputs :
       LET r == EDU_addContent(storage, sender, in[1], in[2], in[3], in[4]) IN
       Apply(r, AfterInsert(r))

EDU_GetContent ==
  /\ deployed = EDU
  /\ \E id \in Ids : Apply(EDU_getContent(storage, id), history)

FEC2_AddContent ==
  /\ deployed = FEC2
  /\ \E sender \in Addresses, in \in FEC_ValidInputs \cup FEC_InvalidInputs :
       LET r == FEC2_addContent(storage, sender, in[1], in[2], in[3], in[4]) IN
       /\ in \in FEC_ValidInputs => storage.contentsCount < MaxRecords
       /\ Apply(r, AfterInsert(r))

FEC2_GetContent ==
  /\ deployed = FEC2
  /\ \E _id \in Ids : Apply(FEC2_getContent(storage, _id), history)

WPC1_AddWhitepaper ==
  /\ deployed = WPC1
  /\ \E sender \in Addresses, in \in WPC_ValidInputs \cup WPC_InvalidInputs :
       LET r == WPC1_addWhitepaper(storage, sender, in[1], in[2], in[3]) IN
       /\ in \in WPC_ValidInputs => storage.whitepapersCount < MaxRecords
       /\ Apply(r, AfterInsert(r))

WPC1_GetWhitepaper ==
  /\ deployed = WPC1
  /\ \E _id \in Ids : Apply(WPC1_getWhitepaper(storage, _id), history)

HPT_SignPeacePledge ==
  /\ deployed = HPT
  /\ \E sender \in Addresses :
       Apply(HPT_signPeacePledge(storage, sender, blockNumber), history)

HPT_ProveCommitment ==
  /\ deployed = HPT
  /\ \E sender \in Addresses :
       Apply(HPT_proveCommitment(storage, sender, blockNumber), history)

HPT_HasSigned ==
  /\ deployed = HPT
  /\ \E account \in Addresses : Apply(HPT_hasSigned(storage, account), history)

RCT_SubmitAuditReport ==
  /\ deployed = RCT
  /\ \E sender \in Addresses, in \in RCT_Inputs :
       Apply(RCT_submitAuditReport(storage, sender, blockNumber, in[1], in[2], in[3]),
             history)

RCT_GetBlocksRemaining ==
  /\ deployed = RCT
  /\ Apply(RCT_getBlocksRemaining(storage, blockNumber), history)

RCT_GetOwedTokens ==
  /\ deployed = RCT
  /\ \E _tester \in Addresses : Apply(RCT_getOwedTokens(storage, _tester), history)

GPC_GetTotalPlantsCount ==
  /\ deployed = GPC
  /\ Apply(GPC_getTotalPlantsCount(storage), history)

GPC_GetPlantsByCreator ==
  /\ deployed = GPC
  /\ \E _creator \in Addresses : Apply(GPC_getPlantsByCreator(storage, _creator), history)

\* the timestamp of the block is taken to be its number
GPC1_AddPlant ==
  /\ deployed = GPC1
  /\ storage.nextPlantId < MaxRecords
  /\ \E sender \in Addresses, in \in GPC1_Inputs :
       LET r == GPC1_addPlant(storage, sender, blockNumber,
                              in[1], in[2], in[3], in[4], in[5]) IN
       Apply(r, AfterInsert(r))

GPC1_GetTotalPlantsCount ==
  /\ deployed = GPC1
  /\ Apply(GPC1_getTotalPlantsCount(storage), history)

GPC1_GetAllPlantIds ==
  /\ deployed = GPC1
  /\ Apply(GPC1_getAllPlantIds(storage), history)

GPC1_GetPlantsByCreator ==
  /\ deployed = GPC1
  /\ \E _creator \in Addresses : Apply(GPC1_getPlantsByCreator(storage, _creator), history)

\* a block is mined; GlobalPlantCatalog, HumansPeaceTreaty and RcTestReward
\* read block.number
Mine ==
  /\ deployed \in {GPC, HPT, RCT}
  /\ blockNumber < MaxBlock
  /\ blockNumber' = blockNumber + 1
  /\ UNCHANGED <<deployed, storage, receipt, history>>

Next ==
  \/ FEC_AddContent
  \/ FEC_Vote
  \/ FEC_HasMoreUpvotes
  \/ GPC_AddPlant
  \/ GPC_Vote
  \/ GPC_HasMoreUpvotes
  \/ WPC_AddWhitepaper
  \/ WPC_Vote
  \/ WPC_HasMoreUpvotes
  \/ SAS_RegisterImpactApp
  \/ SAS_VoteForImpactApp
  \/ SAS_IsImpactAppSustainable
  \/ DAPP_RegisterDApp
  \/ DAPP_VoteForDApp
  \/ DAPP_IsDAppSustainable
  \/ FEC_GetContent
  \/ GPC_GetPlant
  \/ WPC_GetWhitepaper
  \/ SAS_ImpactApps
  \/ EDU_AddContent
  \/ EDU_GetContent
  \/ FEC2_AddContent
  \/ FEC2_GetContent
  \/ WPC1_AddWhitepaper
  \/ WPC1_GetWhitepaper
  \/ HPT_SignPeacePledge
  \/ HPT_ProveCommitment
  \/ HPT_HasSigned
  \/ RCT_SubmitAuditReport
  \/ RCT_GetBlocksRemaining
  \/ RCT_GetOwedTokens
  \/ GPC_GetTotalPlantsCount
  \/ GPC_GetPlantsByCreator
  \/ GPC1_AddPlant
  \/ GPC1_GetTotalPlantsCount
  \/ GPC1_GetAllPlantIds
  \/ GPC1_GetPlantsByCreator
  \/ Mine

Spec == Init /\ [][Next]_vars

\* ============================================================ properties
\* the contracts that keep a vote ledger
Ledgers == {FEC, GPC, WPC, SAS, DAPP}

\* The five vote ledgers read through one set of names.
Count(st) ==
  CASE deployed = FEC -> st.contentsCount
    [] deployed = GPC -> st.nextPlantId
    [] deployed = WPC -> st.whitepapersCount
    [] deployed = SAS -> st.impactAppsCount
    [] deployed = DAPP -> st.dAppsCount
    [] deployed \in {EDU, FEC2} -> st.contentsCount
    [] deployed = WPC1 -> st.whitepapersCount

\* the ids the counter says have been assigned: from 0 in GlobalPlantCatalog,
\* from 1 in the others
Assigned(st) ==
  IF deployed = GPC THEN 0..(Count(st) - 1) ELSE 1..Count(st)

Record(st, id) ==
  CASE deployed = FEC -> st.contents[id]
    [] deployed = GPC -> st.plants[id]
    [] deployed = WPC -> st.whitepapers[id]
    [] deployed = SAS -> st.impactApps[id]
    [] deployed = DAPP -> st.dApps[id]
    [] deployed \in {EDU, FEC2} -> st.contents[id]
    [] deployed = WPC1 -> st.whitepapers[id]

Up(st, id) ==
  IF deployed \in {SAS, DAPP} THEN Record(st, id).positiveVotes ELSE Record(st, id).upvotes

Down(st, id) ==
  IF deployed \in {SAS, DAPP} THEN Record(st, id).negativeVotes
  ELSE Record(st, id).downvotes

Ballot(st, id, a) ==
  CASE deployed \in {FEC, GPC, WPC} -> st.userVotes[id][a]
    [] deployed = SAS -> st.impactAppVotes[id][a]
    [] deployed = DAPP -> st.dAppVotes[id][a]

Bucket(st, id, t) == IF t = Positive THEN Up(st, id) ELSE Down(st, id)

CastVote(st, a, id, t) ==
  CASE deployed = FEC -> FEC_vote(st, a, id, t)
    [] deployed = GPC -> GPC_vote(st, a, id, t)
    [] deployed = WPC -> WPC_vote(st, a, id, t)
    [] deployed = SAS -> SAS_voteForImpactApp(st, a, id, t)
    [] deployed = DAPP -> DAPP_voteForDApp(st, a, id, t)

Majority(st, id) ==
  CASE deployed = FEC -> FEC_hasMoreUpvotes(st, id)
    [] deployed = GPC -> GPC_hasMoreUpvotes(st, id)
    [] deployed = WPC -> WPC_hasMoreUpvotes(st, id)
    [] deployed = SAS -> SAS_isImpactAppSustainable(st, id)
    [] deployed = DAPP -> DAPP_isDAppSustainable(st, id)

VoteFns == {"vote", "voteForImpactApp", "voteForDApp"}

InsertFns == {"addContent", "addPlant", "addWhitepaper", "registerImpactApp", "registerDApp"}

MajorityFns == {"hasMoreUpvotes", "isImpactAppSustainable", "isDAppSustainable"}

NotFound ==
  CASE deployed = FEC -> "FEC: Content ID does not exist"
    [] deployed = GPC -> "GPC: Plant ID does not exist"
    [] deployed = WPC -> "Whitepaper ID does not exist"
    [] deployed = SAS -> "Invalid ImpactApp ID."
    [] deployed = DAPP -> "Invalid DApp ID."

InvalidVoteType ==
  CASE deployed = FEC -> "FEC: Invalid vote type"
    [] deployed = GPC -> "GPC: Invalid vote type"
    [] deployed = WPC -> "Invalid vote type"
    [] deployed \in {SAS, DAPP} -> "Invalid vote type."

VotersOf(st, id, t) == {a \in Addresses : Ballot(st, id, a) = t}

\* C1: in every ledger and every reachable state, each existing record's
\* upvotes is the number of voters whose stored vote on it is Upvote/Positive,
\* and its downvotes the number whose stored vote is Downvote/Negative.
C1_TallyMatchesBallots ==
  deployed \in Ledgers =>
  \A id \in Assigned(storage) :
    /\ Up(storage, id) = Cardinality(VotersOf(storage, id, Positive))
    /\ Down(storage, id) = Cardinality(VotersOf(storage, id, Negative))

\* two voters disagree on one record and agree on another
C1_Witness ==
  /\ deployed \in Ledgers
  /\ receipt.fn \in VoteFns /\ receipt.status = "ok"
  /\ \E id \in Assigned(storage) :
       /\ Up(storage, id) = 1 /\ Down(storage, id) = 1
       /\ \E other \in Assigned(storage) \ {id} : Down(storage, other) = 2

\* C2: on every record upvotes + downvotes is the number of distinct voters
\* who have cast at least one successful vote on it, and a successful vote by
\* a voter who has already voted on the record leaves the sum as it is.
C2_SumCountsVoters ==
  deployed \in Ledgers =>
  \A id \in Assigned(storage) :
    /\ Up(storage, id) + Down(storage, id) = Cardinality(history.voted[id])
    /\ \A a \in history.voted[id], t \in {Positive, Negative} :
         LET r == CastVote(storage, a, id, t) IN
         /\ r.receipt.status = "ok"
         /\ Up(r.storage, id) + Down(r.storage, id) = Up(storage, id) + Down(storage, id)

\* every voter has voted on a record, and the last call was a vote
C2_Witness ==
  /\ deployed \in Ledgers
  /\ receipt.fn \in VoteFns /\ receipt.status = "ok"
  /\ \E id \in Assigned(storage) :
       /\ history.voted[id] = Addresses
       /\ Up(storage, id) + Down(storage, id) = NumAddresses
       /\ Up(storage, id) >= 1 /\ Down(storage, id) >= 1

\* C3: a vote for the opposite category takes exactly 1 from the old bucket,
\* adds exactly 1 to the new one and stores the new category; a first vote only
\* adds 1 to the chosen bucket.  So on a fresh record Positive then Negative by
\* one voter gives 0/1, and Negative then Positive gives 1/0.
Opposite(t) == IF t = Positive THEN Negative ELSE Positive

Fresh(st, id) ==
  /\ Up(st, id) = 0 /\ Down(st, id) = 0
  /\ \A a \in Addresses : Ballot(st, id, a) = None

C3_SwapMovesOneVote ==
  deployed \in Ledgers =>
  \A id \in Assigned(storage), a \in Addresses, t \in {Positive, Negative} :
    LET r == CastVote(storage, a, id, t)
        prev == Ballot(storage, id, a)
    IN
    /\ prev = Opposite(t) =>
         /\ r.receipt.status = "ok"
         /\ Bucket(r.storage, id, prev) = Bucket(storage, id, prev) - 1
         /\ Bucket(r.storage, id, t) = Bucket(storage, id, t) + 1
         /\ Ballot(r.storage, id, a) = t
    /\ prev = None =>
         /\ r.receipt.status = "ok"
         /\ Bucket(r.storage, id, t) = Bucket(storage, id, t) + 1
         /\ Bucket(r.storage, id, Opposite(t)) = Bucket(storage, id, Opposite(t))
         /\ Ballot(r.storage, id, a) = t
    /\ Fresh(storage, id) =>
         LET r2 == CastVote(r.storage, a, id, Opposite(t)) IN
         /\ Bucket(r2.storage, id, t) = 0
         /\ Bucket(r2.storage, id, Opposite(t)) = 1

\* one voter holds Positive on a record another voter also voted on, so that
\* the swap to Negative has a bucket to leave and a bucket to join
C3_Witness ==
  /\ deployed \in Ledgers
  /\ receipt.fn \in VoteFns /\ receipt.status = "ok"
  /\ \E id \in Assigned(storage), a \in Addresses :
       /\ Ballot(storage, id, a) = Positive
       /\ Up(storage, id) = 1 /\ Down(storage, id) = 1
       /\ Up(CastVote(storage, a, id, Negative).storage, id) = 0
       /\ Down(CastVote(storage, a, id, Negative).storage, id) = 2

\* C4: in FreeEducationCenter, WhitepaperCenter and SintropAppStore, casting
\* the category the caller already holds on a record succeeds, leaves the
\* tallies and the whole vote map (all storage) unchanged and logs nothing.
C4_RevoteIsNoOp ==
  deployed \in {FEC, WPC, SAS} =>
    \A id \in Assigned(storage), a \in Addresses :
      LET t == Ballot(storage, id, a)
          r == CastVote(storage, a, id, t)
      IN
      t # None =>
        /\ r.receipt.status = "ok"
        /\ r.storage = storage
        /\ r.receipt.logs = <<>>

\* a re-vote has just been applied: in these two contracts a vote that
\* succeeds and logs nothing is one that repeats the stored category
C4_Witness ==
  /\ deployed \in {FEC, SAS}
  /\ receipt.fn \in VoteFns /\ receipt.status = "ok" /\ receipt.logs = <<>>
  /\ \E id \in Assigned(storage) : Up(storage, id) = 1 /\ Down(storage, id) = 1

\* C5: in GlobalPlantCatalog, casting the vote type the caller already holds
\* on a plant is rejected with 'GPC: You have already cast this vote' and the
\* tallies stay as they are.
C5_SameVoteRejected ==
  deployed = GPC =>
    \A id \in Assigned(storage), a \in Addresses :
      LET t == Ballot(storage, id, a)
          r == CastVote(storage, a, id, t)
      IN
      t # None =>
        /\ r.receipt.status = "GPC: You have already cast this vote"
        /\ Up(r.storage, id) = Up(storage, id)
        /\ Down(r.storage, id) = Down(storage, id)

\* C6: a vote that names an id outside the assigned range fails with the
\* not-found error and leaves all storage as it was; so no vote is ever stored
\* for an unassigned id.
C6_UnknownIdRejected ==
  deployed \in Ledgers =>
  \A id \in Ids \ Assigned(storage), a \in Addresses :
    /\ \A t \in VoteType :
         LET r == CastVote(storage, a, id, t) IN
         /\ r.receipt.status = NotFound
         /\ r.storage = storage
    /\ Ballot(storage, id, a) = None
    /\ history.voted[id] = {}

\* a vote has just been refused for its id, in a catalog that has records and
\* ballots
C6_Witness ==
  /\ deployed \in Ledgers
  /\ receipt.fn \in VoteFns /\ receipt.status = NotFound
  /\ Count(storage) = 1
  /\ \E id \in Assigned(storage) : Up(storage, id) = 1

\* C7: a vote whose category is None on an existing record is rejected with
\* the invalid-vote-type error and changes no storage; and nobody who has cast
\* a vote on a record is ever without a stored vote on it again.
C7_NoneRejected ==
  deployed \in Ledgers =>
  /\ \A id \in Assigned(storage), a \in Addresses :
       LET r == CastVote(storage, a, id, None) IN
       /\ r.receipt.status = InvalidVoteType
       /\ r.storage = storage
  /\ \A id \in Ids : \A a \in history.voted[id] : Ballot(storage, id, a) # None

\* a None vote has just been refused on a record that carries a ballot
C7_Witness ==
  /\ deployed \in Ledgers
  /\ receipt.fn \in VoteFns /\ receipt.status = InvalidVoteType
  /\ \E id \in Assigned(storage), a \in Addresses : Ballot(storage, id, a) # None

\* C8: the majority predicate on an existing record returns true exactly when
\* upvotes > downvotes (false on every tie, 0/0 included, and when downvotes
\* lead); on any other id it fails with the not-found error; it never changes
\* storage.
C8_MajorityIsStrict ==
  deployed \in Ledgers =>
  \A id \in Ids :
    LET r == Majority(storage, id) IN
    /\ r.storage = storage
    /\ r.receipt.logs = <<>>
    /\ IF id \in Assigned(storage) THEN
         /\ r.receipt.status = "ok"
         /\ Len(r.receipt.ret) = 1
         /\ r.receipt.ret[1] = TRUE <=> Up(storage, id) > Down(storage, id)
         /\ Up(storage, id) = Down(storage, id) => r.receipt.ret[1] = FALSE
         /\ Up(storage, id) < Down(storage, id) => r.receipt.ret[1] = FALSE
       ELSE
         /\ r.receipt.status = NotFound
         /\ r.receipt.ret = <<>>

\* the predicate has just answered false on a record tied at 1/1
C8_Witness ==
  /\ deployed \in Ledgers
  /\ receipt.fn \in MajorityFns /\ receipt.status = "ok" /\ receipt.ret = <<FALSE>>
  /\ Count(storage) = 1
  /\ \A id \in Assigned(storage) : Up(storage, id) = 1 /\ Down(storage, id) = 1

\* the insert of each contract, on one tuple of its arguments
Insert(st, sender, in) ==
  CASE deployed = FEC -> FEC_addContent(st, sender, in[1], in[2], in[3], in[4])
    [] deployed = GPC ->
         GPC_addPlant(st, sender, blockNumber, in[1], in[2], in[3], in[4], in[5])
    [] deployed = WPC -> WPC_addWhitepaper(st, sender, in[1], in[2], in[3])
    [] deployed = SAS ->
         SAS_registerImpactApp(st, sender, in[1], in[2], in[3], in[4], in[5], in[6])
    [] deployed = DAPP -> DAPP_registerDApp(st, sender, in[1], in[2], in[3], in[4], in[5])
    [] deployed = EDU -> EDU_addContent(st, sender, in[1], in[2], in[3], in[4])
    [] deployed = FEC2 -> FEC2_addContent(st, sender, in[1], in[2], in[3], in[4])
    [] deployed = WPC1 -> WPC1_addWhitepaper(st, sender, in[1], in[2], in[3])

ValidInputs ==
  CASE deployed = FEC -> FEC_ValidInputs
    [] deployed = GPC -> GPC_ValidInputs
    [] deployed = WPC -> WPC_ValidInputs
    [] deployed = SAS -> SAS_ValidInputs
    [] deployed = DAPP -> DAPP_ValidInputs
    [] deployed = EDU -> EDU_Inputs
    [] deployed = FEC2 -> FEC_ValidInputs
    [] deployed = WPC1 -> WPC_ValidInputs

InvalidInputs ==
  CASE deployed = FEC -> FEC_InvalidInputs
    [] deployed = GPC -> GPC_InvalidInputs
    [] deployed = WPC -> WPC_InvalidInputs
    [] deployed = SAS -> SAS_InvalidInputs
    [] deployed = DAPP -> DAPP_InvalidInputs
    [] deployed = EDU -> {}
    [] deployed = FEC2 -> FEC_InvalidInputs
    [] deployed = WPC1 -> WPC_InvalidInputs

\* the id the next insert is due: the counter in GlobalPlantCatalog, the
\* counter plus one in the others
NextId(st) == IF deployed = GPC THEN Count(st) ELSE Count(st) + 1

\* C9: ids are unique, sequential and never reused: the n-th successful
\* insert is assigned id n (n-1 in GlobalPlantCatalog) and leaves the counter
\* at n; the record under each assigned key k has id k, the keys outside the
\* range the counter implies are unwritten, and an insert writes no key that
\* was assigned before.
C9_IdsSequential ==
  deployed \in Ledgers =>
  /\ Count(storage) = history.inserted
  /\ \A k \in Assigned(storage) : Record(storage, k).id = k
  /\ \A k \in Ids \ Assigned(storage) :
       Record(storage, k) = Record(InitStorage(deployed), k)
  /\ (receipt.fn \in InsertFns /\ receipt.status = "ok") =>
       /\ Len(receipt.logs) = 1
       /\ receipt.logs[1].id = IF deployed = GPC THEN history.inserted - 1
                               ELSE history.inserted
  /\ \A sender \in Addresses, in \in ValidInputs :
       LET r == Insert(storage, sender, in) IN
       r.receipt.status = "ok" =>
         /\ Count(r.storage) = Count(storage) + 1
         /\ r.receipt.logs[1].id = NextId(storage)
         /\ Record(r.storage, NextId(storage)).id = NextId(storage)
         /\ \A k \in Assigned(storage) : Record(r.storage, k) = Record(storage, k)

\* the second insert has just succeeded
C9_Witness ==
  /\ deployed \in Ledgers
  /\ receipt.fn \in InsertFns /\ receipt.status = "ok"
  /\ history.inserted = 2
  /\ Count(storage) = 2

ValidationErrors ==
  CASE deployed = FEC ->
         {"FEC: Title must be between 1 and 49 characters",
          "FEC: Description must be between 1 and 499 characters",
          "FEC: URL must be between 1 and 199 characters",
          "FEC: Photo URL must be less than 199 characters"}
    [] deployed = GPC ->
         {"String must be between 1 and 49 characters",
          "String must be between 1 and 99 characters",
          "String must be between 1 and 299 characters",
          "String must be between 1 and 149 characters"}
    [] deployed = WPC ->
         {"Title must be between 1 and 49 characters",
          "Description must be between 1 and 499 characters",
          "URL must be between 1 and 199 characters"}
    [] deployed \in {SAS, DAPP} ->
         {"Name must be between 1 and 100 characters.",
          "Description must be between 1 and 1000 characters.",
          "Icon must be between 1 and 150 characters.",
          "Repository URL must be between 1 and 200 characters.",
          "External link must be between 1 and 200 characters.",
          "Must include at least one contract address."}

\* C10: an insert whose input violates a field bound fails with a validation
\* error and leaves the counter and all records (all storage) unchanged, so a
\* valid insert that follows gets the id it was due before the failed attempt.
C10_RejectedInsertChangesNothing ==
  deployed \in Ledgers =>
  \A sender \in Addresses, in \in InvalidInputs :
    LET r == Insert(storage, sender, in) IN
    /\ r.receipt.status \in ValidationErrors
    /\ r.storage = storage
    /\ \A next \in Addresses, valid \in ValidInputs :
         LET r2 == Insert(r.storage, next, valid) IN
         r2.receipt.status = "ok" => r2.receipt.logs[1].id = NextId(storage)

\* an insert has just been refused on an empty catalog
C10_Witness ==
  /\ deployed \in Ledgers
  /\ receipt.fn \in InsertFns /\ receipt.status \in ValidationErrors
  /\ Count(storage) = 0
  /\ history.inserted = 0

\* ------------------------------------------------------------ catalogs
\* the contracts that keep records under sequential ids
Catalogs == Ledgers \cup {EDU, FEC2, WPC1}

\* the catalogs whose source declares a get-by-id accessor
WithAccessor == {FEC, GPC, WPC, EDU, FEC2, WPC1}

Get(st, id) ==
  CASE deployed = FEC -> FEC_getContent(st, id)
    [] deployed = GPC -> GPC_getPlant(st, id)
    [] deployed = WPC -> WPC_getWhitepaper(st, id)
    [] deployed = EDU -> EDU_getContent(st, id)
    [] deployed = FEC2 -> FEC2_getContent(st, id)
    [] deployed = WPC1 -> WPC1_getWhitepaper(st, id)

GetFns == {"getContent", "getPlant", "getWhitepaper"}

GetNotFound ==
  {"FEC: Content ID does not exist", "Plant ID does not exist",
   "Whitepaper ID does not exist", "FEC: Whitepaper ID does not exist"}

\* C11: in every catalog contract, get-by-id on an id that is not assigned
\* (0 when ids start at 1, any id beyond the counter) fails with the
\* not-found error and returns no record.
C11_GetUnknownIdFails ==
  deployed \in WithAccessor =>
    \A id \in Ids \ Assigned(storage) :
      LET r == Get(storage, id) IN
      /\ r.receipt.status \in GetNotFound
      /\ r.receipt.ret = <<>>

\* the names of the fields an insert takes, in the order of its arguments
FieldNames ==
  CASE deployed \in {FEC, EDU, FEC2} -> <<"title", "description", "url", "photo">>
    [] deployed = GPC ->
         <<"popularName", "scientificName", "taxonomy", "description", "photoHash">>
    [] deployed \in {WPC, WPC1} -> <<"title", "description", "url">>
    [] deployed = SAS ->
         <<"name", "description", "icon", "repositoryUrl", "externalLink",
           "contractAddresses">>
    [] deployed = DAPP ->
         <<"name", "description", "repositoryUrl", "externalLink", "contractAddresses">>

Tallies == {"upvotes", "downvotes", "positiveVotes", "negativeVotes"}

\* a record without its tallies
Fields(rec) == [f \in DOMAIN rec \ Tallies |-> rec[f]]

\* what is read back for an id: the accessor's answer, or the stored record
\* in the two app stores, which declare no accessor
Lookup(st, id) ==
  IF deployed \in WithAccessor THEN Get(st, id)
  ELSE Ok(st, "storage", <<>>, <<Record(st, id)>>)

\* the insert of valid input `in' by `sender' succeeded with result r, and
\* the record read back under the id it assigned is the input
StoredAsGiven(st, r, in) ==
  LET id == NextId(st)
      got == Lookup(r.storage, id)
  IN
  /\ r.receipt.status = "ok"
  /\ Count(r.storage) = Count(st) + 1
  /\ got.receipt.status = "ok"
  /\ got.receipt.ret[1].id = id
  /\ \A i \in 1..Len(FieldNames) : got.receipt.ret[1][FieldNames[i]] = in[i]
  /\ \A t \in Tallies \cap DOMAIN got.receipt.ret[1] : got.receipt.ret[1][t] = 0

\* no insert and no vote changes a field of a record that is assigned
FieldsPersist(st) ==
  \A k \in Assigned(st) :
    /\ \A sender \in Addresses, in \in ValidInputs \cup InvalidInputs :
         Fields(Record(Insert(st, sender, in).storage, k)) = Fields(Record(st, k))
    /\ deployed \in Ledgers =>
         \A a \in Addresses, id \in Ids, t \in VoteType :
           Fields(Record(CastVote(st, a, id, t).storage, k)) = Fields(Record(st, k))

C13_OneEventPerChange ==
  deployed \in Catalogs =>
    /\ \A sender \in Addresses, in \in ValidInputs \cup InvalidInputs :
         LET r == Insert(storage, sender, in) IN
         IF r.receipt.status = "ok" THEN
           /\ Len(r.receipt.logs) = 1
           /\ r.receipt.logs[1].id = NextId(storage)
           /\ r.receipt.logs[1][IF deployed = GPC THEN "creator" ELSE "publisher"]
                = sender
           /\ r.receipt.logs[1][IF deployed = GPC THEN "popularName" ELSE "title"]
                = in[1]
         ELSE r.receipt.logs = <<>>
    /\ deployed \in Ledgers =>
         \A a \in Addresses, id \in Ids, t \in VoteType :
           LET r == CastVote(storage, a, id, t) IN
           IF r.receipt.status = "ok" /\ Ballot(r.storage, id, a) # Ballot(storage, id, a)
           THEN
             /\ Len(r.receipt.logs) = 1
             /\ r.receipt.logs[1].id = id
             /\ r.receipt.logs[1].voter = a
             /\ r.receipt.logs[1].voteType = t
           ELSE r.receipt.logs = <<>>

\* C14: WhitepaperCenter takes one paper per address: once an address has
\* published, every further addWhitepaper by it fails with 'Only one paper
\* allowed' and changes nothing; and whitepapersCount is the number of
\* addresses whose hasPublished flag is set.
C14_OnePaperPerAddress ==
  deployed \in {WPC, WPC1} =>
    /\ \A sender \in Addresses, in \in ValidInputs, again \in ValidInputs :
         LET first == Insert(storage, sender, in) IN
         first.receipt.status = "ok" =>
           LET second == Insert(first.storage, sender, again) IN
           /\ second.receipt.status = "Only one paper allowed"
           /\ second.storage = first.storage
    /\ deployed = WPC =>
         /\ storage.whitepapersCount =
              Cardinality({a \in Addresses : storage.hasPublished[a]})
         /\ \A sender \in Addresses, in \in ValidInputs :
              storage.hasPublished[sender] =>
                /\ Insert(storage, sender, in).receipt.status = "Only one paper allowed"
                /\ Insert(storage, sender, in).storage = storage

\* C15: SintropAppStore's get-by-id accessor returns the complete stored app
\* for an assigned id (the texts, the contractAddresses list, the tallies,
\* zero right after registration) and fails with the invalid-id error for an
\* id that is not assigned, returning no zero-filled app.
C15_GetImpactApp ==
  deployed = SAS =>
    \A id \in Ids :
      LET r == SAS_impactApps(storage, id) IN
      IF id \in Assigned(storage) THEN
        /\ r.receipt.status = "ok"
        /\ DOMAIN r.receipt.ret[1] = DOMAIN storage.impactApps[id]
        /\ r.receipt.ret[1] = storage.impactApps[id]
      ELSE
        /\ r.receipt.status = "Invalid ImpactApp ID"
        /\ r.receipt.ret = <<>>

\* ------------------------------------------------------ HumansPeaceTreaty
Signatories(st) == {a \in Addresses : st.pledges[a].hasSigned}

AlreadySigned == "HumansPeaceTreaty: You have already signed this pledge."

MustSignFirst ==
  "HumansPeaceTreaty: You must sign the pledge first before proving commitment."

\* C16: each address signs at most once: signPeacePledge by an address that
\* has signed reverts and changes nothing; by a new address it succeeds, marks
\* only that address and raises totalSignatures by exactly 1; so
\* totalSignatures is always the number of addresses with hasSigned set.
C16_OneSignaturePerAddress ==
  deployed = HPT =>
    /\ storage.totalSignatures = Cardinality(Signatories(storage))
    /\ \A sender \in Addresses :
         LET r == HPT_signPeacePledge(storage, sender, blockNumber) IN
         IF sender \in Signatories(storage) THEN
           /\ r.receipt.status = AlreadySigned
           /\ r.storage = storage
         ELSE
           /\ r.receipt.status = "ok"
           /\ r.storage.totalSignatures = storage.totalSignatures + 1
           /\ Signatories(r.storage) = Signatories(storage) \cup {sender}
           /\ \A a \in Addresses \ {sender} : r.storage.pledges[a] = storage.pledges[a]

\* every address has signed and a second signature has just been refused
C16_Witness ==
  /\ deployed = HPT
  /\ receipt.fn = "signPeacePledge" /\ receipt.status = AlreadySigned
  /\ Signatories(storage) = Addresses
  /\ storage.totalSignatures = NumAddresses

\* C17: proveCommitment by an address that has not signed reverts and changes
\* nothing; by a signatory it succeeds and changes only that address's
\* lastProofBlock, to the current block number; so no address has a non-zero
\* lastProofBlock without hasSigned.
C17_ProofNeedsSignature ==
  deployed = HPT =>
    /\ \A sender \in Addresses :
         LET r == HPT_proveCommitment(storage, sender, blockNumber) IN
         IF sender \notin Signatories(storage) THEN
           /\ r.receipt.status = MustSignFirst
           /\ r.storage = storage
         ELSE
           /\ r.receipt.status = "ok"
           /\ r.storage.pledges[sender].lastProofBlock = blockNumber
           /\ r.storage.pledges[sender].hasSigned
           /\ r.storage.totalSignatures = storage.totalSignatures
           /\ \A a \in Addresses \ {sender} : r.storage.pledges[a] = storage.pledges[a]
    /\ \A a \in Addresses :
         storage.pledges[a].lastProofBlock # 0 => storage.pledges[a].hasSigned

\* a signatory has just moved its proof to a later block, next to an address
\* that never signed
C17_Witness ==
  /\ deployed = HPT
  /\ receipt.fn = "proveCommitment" /\ receipt.status = "ok"
  /\ receipt.logs[1].blockNumber = 2
  /\ \E a \in Signatories(storage) : storage.pledges[a].lastProofBlock = 2
  /\ \E a \in Addresses \ Signatories(storage) : storage.pledges[a].lastProofBlock = 0

\* ----------------------------------------------------------- RcTestReward
Testers(st) == {a \in Addresses : st._hasSubmittedReport[a]}

PeriodEnded == "RcTestReward: Testing period has ended."

AlreadySubmitted == "RcTestReward: Report already submitted."

\* the block of this call and of every later one
LaterBlocks == blockNumber..(MaxBlock + 1)

C19_SubmitOnlyBeforeEndBlock ==
  deployed = RCT =>
    \A sender \in Addresses, in \in RCT_Inputs :
      LET r == RCT_submitAuditReport(storage, sender, blockNumber, in[1], in[2], in[3])
      IN
      /\ r.receipt.status = "ok" => blockNumber < storage.endBlock
      /\ blockNumber >= storage.endBlock =>
           /\ r.receipt.status = PeriodEnded
           /\ r.storage = storage

\* C20: a report of 0 or of more than 1000 transactions is rejected and stores
\* nothing, so every stored report has 1 <= transactionCount <= 1000;
\* getOwedTokens(t) is 100 times the stored count of a tester who submitted
\* and 0 for one who did not, hence at most 100000.
C20_CountBoundsAndReward ==
  deployed = RCT =>
    /\ \A sender \in Addresses, in \in RCT_Inputs :
         LET r == RCT_submitAuditReport(storage, sender, blockNumber,
                                        in[1], in[2], in[3])
         IN
         (in[1] = 0 \/ in[1] > 1000) =>
           /\ r.receipt.status # "ok"
           /\ r.storage = storage
    /\ \A t \in Testers(storage) :
         /\ storage.auditReports[t].transactionCount >= 1
         /\ storage.auditReports[t].transactionCount <= 1000
    /\ \A t \in Addresses :
         LET owed == RCT_getOwedTokens(storage, t) IN
         /\ owed.receipt.status = "ok"
         /\ owed.storage = storage
         /\ owed.receipt.ret[1] =
              IF t \in Testers(storage)
              THEN 100 * storage.auditReports[t].transactionCount ELSE 0
         /\ owed.receipt.ret[1] <= 100000

\* the reward of a tester who reported the maximum has just been read, next
\* to a tester who has not reported
C20_Witness ==
  /\ deployed = RCT
  /\ receipt.fn = "getOwedTokens" /\ receipt.ret = <<100000>>
  /\ Testers(storage) # Addresses
  /\ \E t \in Testers(storage) : storage.auditReports[t].transactionCount = 1000

\* ----------------------------------------------------------- field bounds
\* the limit of each required text field, in the order of the arguments
Limits ==
  CASE deployed \in {FEC, WPC} -> <<50, 500, 200>>
    [] deployed = GPC -> <<50, 100, 300, 300, 150>>

\* inserts whose required fields are one byte long except one, which is
\* empty, one byte, one below its limit or at its limit; in
\* FreeEducationCenter with an empty photo, one of 199 bytes or one of 200
BoundaryInputs ==
  LET required ==
        UNION { { [i \in 1..Len(Limits) |-> Repeat("x", IF i = f THEN n ELSE 1)] :
                    n \in {0, 1, Limits[f] - 1, Limits[f]} } : f \in 1..Len(Limits) }
  IN
  IF deployed = FEC
  THEN { r \o <<Repeat("x", n)>> : r \in required, n \in {0, 199, 200} }
  ELSE required

RequiredInBounds(in) ==
  \A i \in 1..Len(Limits) : BytesLength(in[i]) >= 1 /\ BytesLength(in[i]) < Limits[i]

C22_PhotoBelow199 ==
  deployed = FEC =>
    \A sender \in Addresses, in \in BoundaryInputs :
      RequiredInBounds(in) =>
        /\ BytesLength(in[4]) = 0 => Insert(storage, sender, in).receipt.status = "ok"
        /\ BytesLength(in[4]) >= 199 =>
             /\ Insert(storage, sender, in).receipt.status =
                  "FEC: Photo URL must be less than 199 characters"
             /\ Insert(storage, sender, in).storage = storage

\* ---------------------------------------------------------------- C23
\* the checks of registerImpactApp in the order the claim lists them: the
\* largest length each text field may have, and the message of its check
AppLimits == <<100, 1000, 150, 200, 200>>

AppMessages ==
  << "Name must be between 1 and 100 characters.",
     "Description must be between 1 and 1000 characters.",
     "Icon must be between 1 and 150 characters.",
     "Repository URL must be between 1 and 200 characters.",
     "External link must be between 1 and 200 characters.",
     "Must include at least one contract address." >>

\* the checks a registration violates (6 is the contract-address list)
Violated(in) ==
  {i \in 1..5 : BytesLength(in[i]) < 1 \/ BytesLength(in[i]) > AppLimits[i]}
    \cup (IF Len(in[6]) = 0 THEN {6} ELSE {})

Least(S) == CHOOSE i \in S : \A j \in S : i <= j

\* registrations with every combination of violated checks, and with each
\* field in turn empty, one byte long, at its limit and one byte past it
AppProbes ==
  LET text(i, n) == Repeat("x", n)
      lists == {<<>>, <<1>>, <<1, 2>>}
  IN
  { <<text(1, b[1]), text(2, b[2]), text(3, b[3]), text(4, b[4]), text(5, b[5]), l>> :
      b \in [1..5 -> {0, 1}], l \in lists }
  \cup UNION { { [i \in 1..6 |-> IF i = 6 THEN <<1>>
                                 ELSE text(i, IF i = f THEN n ELSE AppLimits[i])] :
                   n \in {0, 1, AppLimits[f], AppLimits[f] + 1} } : f \in 1..5 }

\* C23: SintropAppStore.registerImpactApp succeeds iff name has 1..100 bytes,
\* description 1..1000, icon 1..150, repositoryUrl 1..200, externalLink 1..200
\* and the contract-address list is not empty; otherwise it reverts with the
\* message of the first violated check and leaves the counter and every
\* stored app as they were.
C23_RegisterIffInBounds ==
  deployed = SAS =>
    \A sender \in Addresses, in \in AppProbes :
      LET r == SAS_registerImpactApp(storage, sender,
                                     in[1], in[2], in[3], in[4], in[5], in[6]) IN
      /\ r.receipt.status = "ok" <=> Violated(in) = {}
      /\ Violated(in) # {} =>
           /\ r.receipt.status = AppMessages[Least(Violated(in))]
           /\ r.storage = storage
           /\ r.receipt.logs = <<>>

\* a registration has been refused for its empty contract list while an app
\* with every field at its upper bound is stored
C23_Witness ==
  /\ deployed = SAS
  /\ receipt.fn = "registerImpactApp"
  /\ receipt.status = AppMessages[6]
  /\ storage.impactAppsCount >= 1
  /\ \A i \in 1..5 :
       BytesLength(storage.impactApps[1][FieldNames[i]]) = AppLimits[i]

\* ---------------------------------------------------------------- C24
\* the field that names the account a record belongs to, where the struct
\* has one
OwnerField ==
  CASE deployed = GPC -> {"creator"}
    [] deployed \in {SAS, DAPP} -> {"publisher"}
    [] deployed \in {FEC, WPC} -> {}

\* C24: a record is immutable once written: a successful insert writes the
\* assigned id and the caller as owner/creator/publisher; no insert, by any
\* caller and on any input, changes anything of an assigned record; a vote
\* changes nothing of an assigned record but its two tallies, and those only
\* when it is a vote on that record.
C24_RecordImmutable ==
  deployed \in Ledgers =>
    /\ \A sender \in Addresses, in \in ValidInputs :
         LET r == Insert(storage, sender, in) IN
         r.receipt.status = "ok" =>
           /\ Record(r.storage, NextId(storage)).id = NextId(storage)
           /\ \A o \in OwnerField : Record(r.storage, NextId(storage))[o] = sender
    /\ \A k \in Assigned(storage) :
         /\ Record(storage, k).id = k
         /\ \A o \in OwnerField : Record(storage, k)[o] \in Addresses
         /\ \A sender \in Addresses, in \in ValidInputs \cup InvalidInputs :
              Record(Insert(storage, sender, in).storage, k) = Record(storage, k)
         /\ \A a \in Addresses, id \in Ids, t \in VoteType :
              LET r == CastVote(storage, a, id, t) IN
              /\ Fields(Record(r.storage, k)) = Fields(Record(storage, k))
              /\ id # k => Record(r.storage, k) = Record(storage, k)
              /\ r.receipt.status # "ok" => Record(r.storage, k) = Record(storage, k)

\* a record whose tallies a vote has just changed, written by the second
\* account before another insert and votes by both accounts
C24_Witness ==
  /\ deployed \in {GPC, SAS, DAPP}
  /\ Count(storage) = MaxRecords
  /\ receipt.fn \in VoteFns
  /\ receipt.status = "ok"
  /\ \E k \in Assigned(storage) :
       /\ Up(storage, k) + Down(storage, k) = NumAddresses
       /\ \A o \in OwnerField : Record(storage, k)[o] = 2
       /\ k = NextId(storage) - MaxRecords

\* ---------------------------------------------------------------- C25
\* one step of the counter: as it was, or one more, and one more exactly in
\* a successful insert
CounterStep ==
  deployed \in Catalogs =>
    /\ Count(storage') \in {Count(storage), Count(storage) + 1}
    /\ Count(storage') # Count(storage) =>
         receipt'.fn \in InsertFns /\ receipt'.status = "ok"
    /\ receipt'.fn \notin InsertFns => Count(storage') = Count(storage)
    /\ receipt'.status # "ok" => Count(storage') = Count(storage)

\* C25: the catalog counter starts at 0, and every step leaves it as it was
\* or adds exactly 1 to it; it grows only in a successful insert, and a vote,
\* a getter or a failed call never changes it.
C25_CounterMonotonic ==
  /\ deployed \in Catalogs => Count(storage) = 0
  /\ [][CounterStep]_vars

\* the counter has been raised twice, and a failed insert has just left it
\* where it was
C25_Witness ==
  /\ deployed \in Catalogs
  /\ Count(storage) = MaxRecords
  /\ history.inserted = MaxRecords
  /\ receipt.fn \in InsertFns
  /\ receipt.status # "ok"

\* ---------------------------------------------------------------- C26
\* C26: votes are sticky: no vote call and no insert turns a stored vote that
\* is Positive or Negative back into None, and after a successful vote call
\* the caller's stored vote on that record is the category of the call.
C26_VotesSticky ==
  deployed \in Ledgers =>
    /\ \A a \in Addresses, id \in Ids, t \in VoteType :
         LET r == CastVote(storage, a, id, t) IN
         /\ r.receipt.status = "ok" => t # None /\ Ballot(r.storage, id, a) = t
         /\ \A b \in Addresses, k \in Ids :
              Ballot(storage, k, b) # None => Ballot(r.storage, k, b) # None
    /\ \A sender \in Addresses, in \in ValidInputs \cup InvalidInputs :
         \A b \in Addresses, k \in Ids :
           Ballot(Insert(storage, sender, in).storage, k, b) = Ballot(storage, k, b)

\* a vote has just succeeded on a record on which every account now holds a
\* Negative vote, so that each further vote on it confirms or changes one
C26_Witness ==
  /\ deployed \in Ledgers
  /\ receipt.fn \in VoteFns
  /\ receipt.status = "ok"
  /\ \E id \in Assigned(storage) :
       /\ \A a \in Addresses : Ballot(storage, id, a) = Negative
       /\ Down(storage, id) = NumAddresses

\* ---------------------------------------------------------------- C27
PlantCatalogs == {GPC, GPC1}

PlantsByCreator(st, c) ==
  IF deployed = GPC THEN GPC_getPlantsByCreator(st, c) ELSE GPC1_getPlantsByCreator(st, c)

AddPlant(st, sender, in) ==
  IF deployed = GPC THEN GPC_addPlant(st, sender, blockNumber, in[1], in[2], in[3], in[4], in[5])
  ELSE GPC1_addPlant(st, sender, blockNumber, in[1], in[2], in[3], in[4], in[5])

PlantInputs ==
  IF deployed = GPC THEN GPC_ValidInputs \cup GPC_InvalidInputs ELSE GPC1_Inputs

RECURSIVE SumOfLengths(_, _)
SumOfLengths(lists, S) ==
  IF S = {} THEN 0
  ELSE LET a == CHOOSE x \in S : TRUE IN Len(lists[a]) + SumOfLengths(lists, S \ {a})

\* C27: for every address c, getPlantsByCreator(c) is the strictly increasing
\* sequence of exactly the plant ids whose creator is c, empty for an address
\* that added nothing; the lengths of the lists sum to nextPlantId; and the
\* lists are append-only: addPlant appends the new id to the caller's list
\* and leaves the others, and no other call changes a list.
C27_CreatorIndexConsistent ==
  deployed \in PlantCatalogs =>
    LET ids == 0..(storage.nextPlantId - 1)
        list(st, c) == PlantsByCreator(st, c).receipt.ret[1]
    IN
    /\ \A c \in Addresses :
         LET r == PlantsByCreator(storage, c)
             l == r.receipt.ret[1]
         IN
         /\ r.receipt.status = "ok"
         /\ r.storage = storage
         /\ \A i, j \in 1..Len(l) : i < j => l[i] < l[j]
         /\ {l[i] : i \in 1..Len(l)} = {k \in ids : storage.plants[k].creator = c}
         /\ (\A k \in ids : storage.plants[k].creator # c) => l = <<>>
    /\ \A k \in ids : storage.plants[k].creator \in Addresses
    /\ SumOfLengths([c \in Addresses |-> list(storage, c)], Addresses) = storage.nextPlantId
    /\ \A sender \in Addresses, in \in PlantInputs :
         LET r == AddPlant(storage, sender, in) IN
         \A c \in Addresses :
           list(r.storage, c) =
             IF r.receipt.status = "ok" /\ c = sender
             THEN Append(list(storage, c), storage.nextPlantId)
             ELSE list(storage, c)
    /\ deployed = GPC =>
         \A a \in Addresses, id \in Ids, t \in VoteType, c \in Addresses :
           list(GPC_vote(storage, a, id, t).storage, c) = list(storage, c)

\* the list of the second account has just been read and holds the second
\* id only, the first account having added the first plant
C27_Witness ==
  /\ deployed \in PlantCatalogs
  /\ receipt.fn = "getPlantsByCreator"
  /\ receipt.ret = << <<1>> >>
  /\ storage.creatorPlants[1] = <<0>>
  /\ storage.creatorPlants[2] = <<1>>

\* ---------------------------------------------------------------- C28
\* C28: getAllPlantIds returns, in ascending order, exactly the ids
\* 0..nextPlantId-1 (the empty list on an empty catalog); its length is what
\* getTotalPlantsCount returns; its loop ends, after nextPlantId rounds; and
\* it changes no state.
C28_AllPlantIds ==
  deployed = GPC1 =>
    LET r == GPC1_getAllPlantIds(storage)
        allIds == r.receipt.ret[1]
    IN
    /\ r.receipt.status = "ok"
    /\ r.storage = storage
    /\ Len(allIds) = GPC1_getTotalPlantsCount(storage).receipt.ret[1]
    /\ Len(allIds) = storage.nextPlantId
    /\ \A i \in 1..Len(allIds) : allIds[i] = i - 1
    /\ storage.nextPlantId = 0 => allIds = <<>>

\* the ids of a catalog of MaxRecords plants have just been listed
C28_Witness ==
  /\ deployed = GPC1
  /\ receipt.fn = "getAllPlantIds"
  /\ storage.nextPlantId = MaxRecords
  /\ Len(receipt.ret[1]) = MaxRecords
  /\ receipt.ret[1][MaxRecords] = MaxRecords - 1

\* ---------------------------------------------------------------- C29
\* C29: proveCommitment, by any caller and in any block, never changes
\* totalSignatures, never changes the hasSigned flag of any address and never
\* changes the lastProofBlock of an address other than the caller; and
\* signPeacePledge never changes the Signature of an address other than the
\* caller.
C29_PledgeFrame ==
  deployed = HPT =>
    \A sender \in Addresses, number \in blockNumber..MaxBlock :
      LET p == HPT_proveCommitment(storage, sender, number)
          s == HPT_signPeacePledge(storage, sender, number)
      IN
      /\ p.storage.totalSignatures = storage.totalSignatures
      /\ \A a \in Addresses :
           /\ p.storage.pledges[a].hasSigned = storage.pledges[a].hasSigned
           /\ HPT_hasSigned(p.storage, a).receipt.ret = HPT_hasSigned(storage, a).receipt.ret
      /\ \A a \in Addresses \ {sender} :
           /\ p.storage.pledges[a].lastProofBlock = storage.pledges[a].lastProofBlock
           /\ s.storage.pledges[a] = storage.pledges[a]

\* a proof has just been recorded while every address has signed and the
\* other signatory's last proof is of an earlier block
C29_Witness ==
  /\ deployed = HPT
  /\ receipt.fn = "proveCommitment" /\ receipt.status = "ok"
  /\ storage.totalSignatures = NumAddresses
  /\ \E a \in Signatories(storage) :
       /\ a = receipt.logs[1].prover
       /\ \A b \in Signatories(storage) \ {a} :
            storage.pledges[b].lastProofBlock < storage.pledges[a].lastProofBlock

\* ---------------------------------------------------------------- C30
PledgeFns == {"signPeacePledge", "proveCommitment"}

\* the address a successful pledge call was made by, from its event
PledgeCaller(rc) ==
  IF rc.fn = "signPeacePledge" THEN rc.logs[1].signer ELSE rc.logs[1].prover

\* one step of the treaty: flags stay set, the counter and the proof blocks
\* do not go down, and a proof block changes only to the block of a
\* successful signPeacePledge or proveCommitment of its address
PledgeStep ==
  deployed = HPT =>
    /\ blockNumber' >= blockNumber
    /\ storage'.totalSignatures >= storage.totalSignatures
    /\ \A a \in Addresses :
         /\ storage.pledges[a].hasSigned => storage'.pledges[a].hasSigned
         /\ storage'.pledges[a].lastProofBlock >= storage.pledges[a].lastProofBlock
         /\ storage'.pledges[a].lastProofBlock # storage.pledges[a].lastProofBlock =>
              /\ receipt'.fn \in PledgeFns
              /\ receipt'.status = "ok"
              /\ PledgeCaller(receipt') = a
              /\ storage'.pledges[a].lastProofBlock = blockNumber
    /\ receipt'.fn \in PledgeFns /\ receipt'.status = "ok" =>
         /\ storage'.pledges[PledgeCaller(receipt')].hasSigned
         /\ storage'.pledges[PledgeCaller(receipt')].lastProofBlock =
              receipt'.logs[1].blockNumber
         /\ blockNumber' = blockNumber => receipt'.logs[1].blockNumber = blockNumber

\* C30: a peace pledge is permanent: hasSigned(a), once true, is true in every
\* later state; totalSignatures never decreases; block numbers not
\* decreasing, lastProofBlock of an address never decreases and is the block
\* of its most recent successful signPeacePledge or proveCommitment.
C30_PledgePermanent == [][PledgeStep]_vars

\* an address that signed in block 0 has just proven its commitment in the
\* last block, after another address signed in between
C30_Witness ==
  /\ deployed = HPT
  /\ blockNumber = MaxBlock
  /\ receipt.fn = "proveCommitment" /\ receipt.status = "ok"
  /\ storage.pledges[PledgeCaller(receipt)].lastProofBlock = MaxBlock
  /\ \E b \in Signatories(storage) :
       storage.pledges[b].lastProofBlock \in 1..(MaxBlock - 1)

\* ---------------------------------------------------------------- C31
\* C31: getBlocksRemaining returns endBlock - block.number while block.number
\* is below endBlock and 0 from endBlock on, and at every block it is positive
\* exactly when the testing-period check of submitAuditReport passes there.
C31_BlocksRemainingConsistent ==
  deployed = RCT =>
    \A number \in LaterBlocks :
      LET r == RCT_getBlocksRemaining(storage, number) IN
      /\ r.receipt.status = "ok"
      /\ r.storage = storage
      /\ r.receipt.ret[1] >= 0
      /\ r.receipt.ret[1] = IF number < storage.endBlock THEN storage.endBlock - number ELSE 0
      /\ r.receipt.ret[1] > 0 <=> RCT_periodActive(storage, number)
      /\ \A sender \in Addresses \ Testers(storage) :
           r.receipt.ret[1] > 0 <=>
             RCT_submitAuditReport(storage, sender, number, 1, EmptyString,
                                   EmptyString).receipt.status = "ok"

\* ---------------------------------------------------------------- C32
\* the report of an address that never submitted: every field zero or empty
NoReport == RCT_AuditReport(0, EmptyString, EmptyString, 0, 0)

\* C32: for every address t, auditReports[t] is non-empty exactly when t has
\* submitted; then its tester is t and its blockNumber lies in
\* [startBlock, endBlock], and a successful submitAuditReport stores such a
\* report; for an address that never submitted every field is zero or empty.
C32_ReportsAttributedAndDated ==
  deployed = RCT =>
    /\ \A t \in Addresses :
         LET rep == storage.auditReports[t] IN
         /\ rep # NoReport <=> storage._hasSubmittedReport[t]
         /\ storage._hasSubmittedReport[t] =>
              /\ rep.tester = t
              /\ rep.transactionCount > 0
              /\ rep.blockNumber >= storage.startBlock
              /\ rep.blockNumber <= storage.endBlock
              /\ rep.blockNumber <= blockNumber
         /\ ~storage._hasSubmittedReport[t] => rep = NoReport
    /\ \A sender \in Addresses, number \in LaterBlocks, in \in RCT_Inputs :
         LET r == RCT_submitAuditReport(storage, sender, number, in[1], in[2], in[3]) IN
         IF r.receipt.status = "ok" THEN
           /\ r.storage.auditReports[sender] =
                RCT_AuditReport(in[1], in[2], in[3], sender, number)
           /\ r.storage._hasSubmittedReport[sender]
           /\ number <= storage.endBlock
           /\ \A t \in Addresses \ {sender} :
                /\ r.storage.auditReports[t] = storage.auditReports[t]
                /\ r.storage._hasSubmittedReport[t] = storage._hasSubmittedReport[t]
         ELSE r.storage = storage

\* a report has just been stored in the last block of a period that began
\* a block earlier, and another address has none
C32_Witness ==
  /\ deployed = RCT
  /\ receipt.fn = "submitAuditReport" /\ receipt.status = "ok"
  /\ storage.endBlock > storage.startBlock
  /\ \E t \in Testers(storage) : storage.auditReports[t].blockNumber = storage.endBlock
  /\ \E t \in Addresses \ Testers(storage) : storage.auditReports[t] = NoReport

\* ---------------------------------------------------------------- C33
\* C33: a vote by voter v on record r, whatever its category and outcome,
\* leaves the stored vote of every other (record, voter) pair and the
\* tallies of every record other than r as they were; and no call by another
\* account (a vote, an insert or a majority query) changes v's stored vote
\* on r.
C33_VoteTouchesOwnBallotOnly ==
  deployed \in Ledgers =>
    /\ \A v \in Addresses, r \in Ids, t \in VoteType :
         LET res == CastVote(storage, v, r, t) IN
         /\ \A k \in Ids, b \in Addresses :
              <<k, b>> # <<r, v>> => Ballot(res.storage, k, b) = Ballot(storage, k, b)
         /\ \A k \in Ids \ {r} :
              /\ Up(res.storage, k) = Up(storage, k)
              /\ Down(res.storage, k) = Down(storage, k)
    /\ \A v \in Addresses, r \in Ids :
         \A other \in Addresses \ {v} :
           /\ \A k \in Ids, t \in VoteType :
                Ballot(CastVote(storage, other, k, t).storage, r, v) = Ballot(storage, r, v)
           /\ \A in \in ValidInputs \cup InvalidInputs :
                Ballot(Insert(storage, other, in).storage, r, v) = Ballot(storage, r, v)
           /\ \A k \in Ids :
                Ballot(Majority(storage, k).storage, r, v) = Ballot(storage, r, v)

\* the second account has just voted Positive on a record on which the
\* first account holds a Negative vote, and on the other record the first
\* account alone holds a vote
C33_Witness ==
  /\ deployed \in Ledgers
  /\ receipt.fn \in VoteFns /\ receipt.status = "ok"
  /\ \E r \in Assigned(storage) :
       /\ Ballot(storage, r, 1) = Negative
       /\ Ballot(storage, r, 2) = Positive
       /\ history.voted[r] = Addresses
       /\ \E k \in Assigned(storage) \ {r} :
            /\ Ballot(storage, k, 1) = Positive
            /\ Ballot(storage, k, 2) = None

\* ---------------------------------------------------------------- C34
\* the tally invariant of one record
TallyOk(st, id) ==
  /\ Up(st, id) = Cardinality(VotersOf(st, id, Positive))
  /\ Down(st, id) = Cardinality(VotersOf(st, id, Negative))

\* a run of complete vote calls starts from a storage; it keeps the storage
\* reached, the outcome of each call, and whether the tally invariant held
\* after every call
StartRun(st) == [storage |-> st, outcomes |-> <<>>, tallies |-> TRUE]

\* the run continued by `calls', a sequence of <<voter, id, category>>, each
\* applied atomically and in order
RECURSIVE RunVotes(_, _)
RunVotes(run, calls) ==
  IF calls = <<>> THEN run
  ELSE LET c == calls[1]
           r == CastVote(run.storage, c[1], c[2], c[3])
       IN RunVotes([storage |-> r.storage,
                    outcomes |-> Append(run.outcomes, r.receipt.status),
                    tallies |-> run.tallies /\ TallyOk(r.storage, c[2])],
                   Tail(calls))

\* the six interleavings of the two-call sequences <<a1, a2>> and <<b1, b2>>
Interleavings(a1, a2, b1, b2) ==
  { <<a1, a2, b1, b2>>, <<a1, b1, a2, b2>>, <<a1, b1, b2, a2>>,
    <<b1, a1, a2, b2>>, <<b1, a1, b2, a2>>, <<b1, b2, a1, a2>> }

\* C34: vote calls by different voters on the same record commute: two calls
\* in either order end in the same storage with the same outcome each, and
\* every interleaving of two voters' sequences of a vote and its opposite
\* ends in the same tallies and vote map, with the tally invariant holding
\* between the calls.
C34_VotesCommute ==
  deployed \in Ledgers =>
    \A a, b \in Addresses :
      a < b =>
        /\ \A id \in Assigned(storage), ta, tb \in VoteType :
             LET ab == RunVotes(StartRun(storage), <<<<a, id, ta>>, <<b, id, tb>>>>)
                 ba == RunVotes(StartRun(storage), <<<<b, id, tb>>, <<a, id, ta>>>>)
             IN
             /\ ab.storage = ba.storage
             /\ ab.outcomes[1] = ba.outcomes[2]
             /\ ab.outcomes[2] = ba.outcomes[1]
             /\ ab.tallies /\ ba.tallies
        /\ \A id \in Assigned(storage), ta, tb \in {Positive, Negative} :
             LET a1 == <<a, id, ta>>
                 a2 == <<a, id, Opposite(ta)>>
                 b1 == <<b, id, tb>>
                 b2 == <<b, id, Opposite(tb)>>
             IN
             \A end, other \in {RunVotes(StartRun(storage), x) : x \in Interleavings(a1, a2, b1, b2)} :
               /\ end = other
               /\ end.tallies
               /\ end.outcomes = <<"ok", "ok", "ok", "ok">>
               /\ Ballot(end.storage, id, a) = Opposite(ta)
               /\ Ballot(end.storage, id, b) = Opposite(tb)

\* both accounts have voted on one record and hold opposite votes on it,
\* the tallies are split, and the last call was a vote
C34_Witness ==
  /\ deployed \in Ledgers
  /\ receipt.fn \in VoteFns /\ receipt.status = "ok"
  /\ \E id \in Assigned(storage) :
       /\ history.voted[id] = Addresses
       /\ Ballot(storage, id, 1) = Positive
       /\ Ballot(storage, id, 2) = Negative
       /\ TallyOk(storage, id)

C36_NoBallotForUnassignedId ==
  deployed \in Ledgers =>
    /\ \A id \in Ids \ Assigned(storage) :
         \A a \in Addresses :
           /\ Ballot(storage, id, a) = None
           /\ \A t \in VoteType :
                LET r == CastVote(storage, a, id, t) IN
                /\ r.receipt.status # "ok"
                /\ r.storage = storage
    /\ \A sender \in Addresses, in \in ValidInputs :
         LET r == Insert(storage, sender, in) IN
         r.receipt.status = "ok" =>
           /\ Up(r.storage, NextId(storage)) = 0
           /\ Down(r.storage, NextId(storage)) = 0
           /\ VotersOf(r.storage, NextId(storage), Positive) = {}
           /\ VotersOf(r.storage, NextId(storage), Negative) = {}
           /\ TallyOk(r.storage, NextId(storage))

\* a record has just been inserted and carries no ballot, while every
\* account has voted on an earlier record
C36_Witness ==
  /\ deployed \in Ledgers
  /\ receipt.fn \in InsertFns /\ receipt.status = "ok"
  /\ Count(storage) = MaxRecords
  /\ \E id \in Assigned(storage) :
       /\ id = NextId(storage) - 1
       /\ history.voted[id] = {}
       /\ \A a \in Addresses : Ballot(storage, id, a) = None
       /\ \E k \in Assigned(storage) \ {id} : history.voted[k] = Addresses

\* ---------------------------------------------------------------- C37
\* the ids FreeEducationCenter can assign here; GlobalPlantCatalog has k - 1
\* for k
ContentIds == 1..(MaxRecords + 1)

\* the vote ledger of a FreeEducationCenter storage: the counter, and the
\* tallies and stored votes of id k
ContentLedger(st) ==
  [count |-> st.contentsCount,
   up |-> [k \in ContentIds |-> st.contents[k].upvotes],
   down |-> [k \in ContentIds |-> st.contents[k].downvotes],
   votes |-> [k \in ContentIds |-> st.userVotes[k]]]

\* the vote ledger of a GlobalPlantCatalog storage, with id k - 1 under k
PlantLedger(st) ==
  [count |-> st.nextPlantId,
   up |-> [k \in ContentIds |-> st.plants[k - 1].upvotes],
   down |-> [k \in ContentIds |-> st.plants[k - 1].downvotes],
   votes |-> [k \in ContentIds |-> st.userVotes[k - 1]]]

\* the GlobalPlantCatalog storage with the ledger of a FreeEducationCenter
\* storage: what the same inserts and votes leave there, the texts aside
PlantImage(st) ==
  [GPC_Init EXCEPT
     !.nextPlantId = st.contentsCount,
     !.plants = [i \in Ids |->
                   IF i + 1 \in ContentIds
                   THEN [GPC_Init.plants[i] EXCEPT !.id = i,
                                                   !.upvotes = st.contents[i + 1].upvotes,
                                                   !.downvotes = st.contents[i + 1].downvotes]
                   ELSE GPC_Init.plants[i]],
     !.userVotes = [i \in Ids |->
                      IF i + 1 \in ContentIds THEN st.userVotes[i + 1]
                      ELSE GPC_Init.userVotes[i]]]

\* the FreeEducationCenter storage with the ledger of a GlobalPlantCatalog
\* storage
ContentImage(st) ==
  [FEC_Init EXCEPT
     !.contentsCount = st.nextPlantId,
     !.contents = [k \in Ids |->
                     IF k \in ContentIds
                     THEN [FEC_Init.contents[k] EXCEPT !.id = k,
                                                       !.upvotes = st.plants[k - 1].upvotes,
                                                       !.downvotes = st.plants[k - 1].downvotes]
                     ELSE FEC_Init.contents[k]],
     !.userVotes = [k \in Ids |->
                      IF k \in ContentIds THEN st.userVotes[k - 1]
                      ELSE FEC_Init.userVotes[k]]]

\* the same call made on a FreeEducationCenter storage and on a
\* GlobalPlantCatalog storage has the same outcome, returns the same and
\* leaves the same ledger
SameEffect(f, g) ==
  /\ f.receipt.status = "ok" <=> g.receipt.status = "ok"
  /\ f.receipt.ret = g.receipt.ret
  /\ ContentLedger(f.storage) = PlantLedger(g.storage)

\* every call on FreeEducationCenter storage c with id k has the effect of
\* the same call on GlobalPlantCatalog storage p with id k - 1
Corresponding(c, p) ==
  /\ ContentLedger(c) = PlantLedger(p)
  /\ \A a \in Addresses, k \in ContentIds :
       /\ \A t \in VoteType : SameEffect(FEC_vote(c, a, k, t), GPC_vote(p, a, k - 1, t))
       /\ SameEffect(FEC_hasMoreUpvotes(c, k), GPC_hasMoreUpvotes(p, k - 1))
  /\ \A sender \in Addresses, inC \in FEC_ValidInputs, inP \in GPC_ValidInputs :
       LET f == FEC_addContent(c, sender, inC[1], inC[2], inC[3], inC[4])
           g == GPC_addPlant(p, sender, blockNumber, inP[1], inP[2], inP[3], inP[4], inP[5])
       IN
       /\ SameEffect(f, g)
       /\ f.receipt.status = "ok"
       /\ f.storage.contents[c.contentsCount + 1].id = g.storage.plants[p.nextPlantId].id + 1

====
